---- MODULE Spec2Model ----
(***************************************************************************)
(* Model of the Voicemod control-API client: port discovery                *)
(* (util/get-voicemod-port.ts) and the session engine of the class         *)
(* VoicemodWebsocket (websocket.ts): connect / disconnect, the transport   *)
(* callbacks, the request/response correlator and the message router.      *)
(*                                                                         *)
(* One action is one run-to-completion callback of the single-threaded     *)
(* event loop: the handler together with the promise continuations         *)
(* (microtasks) it makes runnable.                                         *)
(***************************************************************************)
EXTENDS Integers, Sequences, FiniteSets, TLC

(***************************************************************************)
(* Program constants                                                       *)
(***************************************************************************)
possibleVoiceModPorts ==
    <<59129, 20000, 39273, 42152, 43782, 46667, 35679, 37170, 38501, 33952, 30546>>

(***************************************************************************)
(* Bounds of the model                                                     *)
(***************************************************************************)
MaxPorts      == 3   \* leading candidates of possibleVoiceModPorts that are probed
MaxAttempts   == 2   \* connection attempts (discovery passes and armed retry timers) alive at once
MaxTransports == 2   \* sockets created by connect() that are not yet closed
MaxPending    == 2   \* listeners registered in internalEvents at the same time
RetryCap      == 3   \* largest value of currentRetry that is explored
MaxInFlight   == 1   \* requests a caller of the round trips has in flight at once
MaxCounted    == 3   \* failed passes that are counted; the largest value stands for "or more"

Ports     == SubSeq(possibleVoiceModPorts, 1, MaxPorts)
SocketIds == 1 .. MaxTransports

Null == 0             \* this.ws === null; sockets are numbered from 1
None == "undefined"

\* multisets as functions from elements to positive counts
EmptyBag == [x \in {} |-> 0]

BagAdd(b, e) ==
    IF e \in DOMAIN b
    THEN [b EXCEPT ![e] = @ + 1]
    ELSE [x \in DOMAIN b \cup {e} |-> IF x = e THEN 1 ELSE b[x]]

BagRemove(b, e) ==
    IF b[e] > 1
    THEN [b EXCEPT ![e] = @ - 1]
    ELSE [x \in DOMAIN b \ {e} |-> b[x]]

BagSize(b) == LET RECURSIVE Sum(_)
                  Sum(D) == IF D = {} THEN 0
                            ELSE LET x == CHOOSE y \in D : TRUE
                                 IN b[x] + Sum(D \ {x})
              IN Sum(DOMAIN b)

(***************************************************************************)
(* Inputs                                                                  *)
(***************************************************************************)
\* Correlation ids that Math.random().toString(36).substring(0, 16) may produce
Ids == {"0.a", "0.b"}

\* constructor arguments: reconnect, maxRetries (0 means unlimited)
OptionChoices ==
    {[reconnect |-> FALSE, maxRetries |-> 2],
     [reconnect |-> TRUE,  maxRetries |-> 0],
     [reconnect |-> TRUE,  maxRetries |-> 2]}

(***************************************************************************)
(* parseInt(string) of ECMAScript, on strings given as sequences of        *)
(* characters: leading white space is skipped, an optional sign, an        *)
(* optional 0x prefix (radix 16), then the longest prefix of digits; NaN   *)
(* when there is no digit.                                                 *)
(***************************************************************************)
NaN == [nan |-> TRUE, value |-> 0]

WhiteSpace == {" "}

DigitValue(c) ==
    CASE c = "0" -> 0 [] c = "1" -> 1 [] c = "2" -> 2 [] c = "3" -> 3 [] c = "4" -> 4
      [] c = "5" -> 5 [] c = "6" -> 6 [] c = "7" -> 7 [] c = "8" -> 8 [] c = "9" -> 9
      [] c \in {"a", "A"} -> 10 [] c \in {"b", "B"} -> 11 [] c \in {"c", "C"} -> 12
      [] c \in {"d", "D"} -> 13 [] c \in {"e", "E"} -> 14 [] c \in {"f", "F"} -> 15
      [] OTHER -> 99

RECURSIVE SkipWhiteSpace(_)
SkipWhiteSpace(s) ==
    IF s # <<>> /\ Head(s) \in WhiteSpace THEN SkipWhiteSpace(Tail(s)) ELSE s

RECURSIVE ParseDigits(_, _, _, _)
ParseDigits(s, radix, acc, seen) ==
    IF s # <<>> /\ DigitValue(Head(s)) < radix
    THEN ParseDigits(Tail(s), radix, acc * radix + DigitValue(Head(s)), TRUE)
    ELSE IF seen THEN [nan |-> FALSE, value |-> acc] ELSE NaN

parseInt(str) ==
    LET s0   == SkipWhiteSpace(str)
        neg  == s0 # <<>> /\ Head(s0) = "-"
        s1   == IF s0 # <<>> /\ Head(s0) \in {"-", "+"} THEN Tail(s0) ELSE s0
        hex  == Len(s1) >= 2 /\ s1[1] = "0" /\ s1[2] \in {"x", "X"}
        s2   == IF hex THEN Tail(Tail(s1)) ELSE s1
        r    == ParseDigits(s2, IF hex THEN 16 ELSE 10, 0, FALSE)
    IN IF r.nan THEN NaN
       ELSE [nan |-> FALSE, value |-> IF neg THEN 0 - r.value ELSE r.value]

\* String.prototype.toLowerCase on the msg strings of the model
toLowerCase(str) ==
    CASE str = "Pending authentication" -> "pending authentication"
      [] str = "PENDING AUTHENTICATION" -> "pending authentication"
      [] OTHER -> str

\* String.prototype.endsWith('Event') on the action names of the model
EventActions ==
    {"voiceChangerEnabledEvent", "voiceChangerDisabledEvent",
     "backgroundEffectsEnabledEvent", "backgroundEffectsDisabledEvent",
     "hearMySelfEnabledEvent", "hearMySelfDisabledEvent",
     "muteMicEnabledEvent", "muteMicDisabledEvent",
     "muteMemeForMeEnabledEvent", "muteMemeForMeDisabledEvent",
     "voiceLoadedEvent", "badLanguageEnabledEvent", "badLanguageDisabledEvent",
     "licenseChangedEvent"}

\* a suffix test that knows only the actions of the static table
endsWithEventInTheTable(action) == action \in EventActions \ {"licenseChangedEvent"}

endsWithEvent(action) == action \in EventActions

(***************************************************************************)
(* util/action-map.ts: actionType of a correlated response -> public event *)
(***************************************************************************)
actionMapKeys ==
    {"ConnectionOpened", "ConnectionClosed", "ConnectionError",
     "ClientRegistered", "ClientRegistrationFailed", "ClientRegistrationPending",
     "UserChanged", "UserLicenseChanged",
     "VoiceChanged", "VoiceListChanged", "VoiceChangerStatusChanged", "VoiceParameterChanged",
     "HearMyselfStatusChanged", "BackgroundEffectStatusChanged", "MuteMicStatusChanged",
     "BadLanguageStatusChanged", "SoundboardListChanged", "MemeListChanged"}

\* a table that also maps the name of a request to the changed-event of its property
actionMapByActionName(actionType) ==
    CASE actionType \in actionMapKeys -> actionType
      [] actionType = "getUser" -> "UserChanged"
      [] actionType = "getVoices" -> "VoiceListChanged"
      [] actionType \in {"getVoiceChangerStatus", "toggleVoiceChanger"} ->
            "VoiceChangerStatusChanged"
      [] OTHER -> None

actionMap(actionType) == IF actionType \in actionMapKeys THEN actionType ELSE None

(***************************************************************************)
(* Message envelopes (the parsed frame of onMessage)                       *)
(***************************************************************************)
\* payload.status.code of an authentication reply; NoPayload: the frame has no payload
NoPayload == <<"no payload">>

Envelope(msg, action, id, actionID, actionType, actionObject, code) ==
    [msg |-> msg, action |-> action, id |-> id, actionID |-> actionID,
     actionType |-> actionType, actionObject |-> actionObject, code |-> code]

\* the values of `x || y` and of the truthiness test on an optional string field
Truthy(x) == x # None /\ x # ""

(***************************************************************************)
(* State                                                                   *)
(***************************************************************************)
VARIABLES
    options,          \* this.options: reconnect, maxRetries
    connected,        \* this.connected, the ready flag
    ws,               \* this.ws: Null or the socket created by connect()
    forceDisconnect,  \* this.forceDisconnect
    currentRetry,     \* this.currentRetry
    internalEvents,   \* once-listeners of this.internalEvents, in registration order
    orphaned,         \* some promise of internalEvent() lost its listener: it never settles
    voicemodState,    \* this.voicemodState, the local cache
    passes,           \* running getVoicemodPort() calls (a multiset)
    timers,           \* armed setTimeout retries of connect()
    sockets,          \* state of each socket created by connect(), callbacks bound to this
    handlers,         \* public events on which the caller registered a listener that
                      \* calls an accessor
    failedPasses,     \* history: discovery passes that failed under the retry logic since
                      \* construction or since the last reset of currentRetry
    lastOp,           \* the callback that ran last, with its inputs
    effects           \* what that callback did, in order: events emitted, frames sent, ...

vars == <<options, connected, ws, forceDisconnect, currentRetry, internalEvents, orphaned,
          voicemodState, passes, timers, sockets, handlers, failedPasses, lastOp, effects>>

\* The fields of the object, as one record that the handlers below transform
This ==
    [connected |-> connected, ws |-> ws, forceDisconnect |-> forceDisconnect,
     currentRetry |-> currentRetry, internalEvents |-> internalEvents,
     orphaned |-> orphaned, voicemodState |-> voicemodState, passes |-> passes,
     timers |-> timers, sockets |-> sockets, failedPasses |-> failedPasses,
     effects |-> <<>>, overflow |-> FALSE, threw |-> FALSE]

Effect(kind, name, arg) == [kind |-> kind, name |-> name, arg |-> arg]

\* EventEmitter.emit(name, arg) of the public event surface
emit(s, name, arg) == [s EXCEPT !.effects = Append(@, Effect("emit", name, arg))]

\* an exception that leaves the callback (a rejected promise nobody handles)
throw(s, message) == [s EXCEPT !.effects = Append(@, Effect("throw", message, None))]

\* a model bound would be exceeded: the step is not explored
Overflow(s) == [s EXCEPT !.overflow = TRUE]

Attempts(s) == BagSize(s.passes) + s.timers

(***************************************************************************)
(* util/get-voicemod-port.ts                                               *)
(***************************************************************************)
Last(seq) == seq[Len(seq)]

\* the first iteration of the loop creates the probe of the first candidate
NewPass == [probed |-> <<Ports[1]>>, failed |-> 0]

\* a loop that steps over a candidate
NextCandidateSkipping(probed) == Len(probed) + 2

\* index of the candidate the for loop takes after the probes made so far
NextCandidate(probed) == Len(probed) + 1

\* a loop that gives up before the last candidate
getVoicemodPortGivingUpEarly(pass, isValidPort) ==
    IF isValidPort
    THEN [outcome |-> "found", port |-> Last(pass.probed), pass |-> pass]
    ELSE IF NextCandidate(pass.probed) < Len(Ports)
         THEN [outcome |-> "next", port |-> 0,
               pass |-> [probed |-> Append(pass.probed, Ports[NextCandidate(pass.probed)]),
                         failed |-> pass.failed + 1]]
         ELSE [outcome |-> "failed", port |-> 0,
               pass |-> [pass EXCEPT !.failed = @ + 1]]

\* one resolution of the probe promise: isValidPort is what the probe resolved with
getVoicemodPort(pass, isValidPort) ==
    IF isValidPort
    THEN [outcome |-> "found", port |-> Last(pass.probed), pass |-> pass]
    ELSE IF NextCandidate(pass.probed) <= Len(Ports)
         THEN [outcome |-> "next", port |-> 0,
               pass |-> [probed |-> Append(pass.probed, Ports[NextCandidate(pass.probed)]),
                         failed |-> pass.failed + 1]]
         ELSE [outcome |-> "failed", port |-> 0,
               pass |-> [pass EXCEPT !.failed = @ + 1]]

(***************************************************************************)
(* websocket.ts: connect()                                                 *)
(***************************************************************************)
connect(s) ==
    IF s.connected
    THEN s
    ELSE IF Attempts(s) >= MaxAttempts
         THEN Overflow(s)
         ELSE [s EXCEPT !.passes = BagAdd(@, NewPass),
                        !.effects = Append(@, Effect("probe", "new WebSocket", [port |-> Ports[1]]))]

FreeSockets(s) == {k \in SocketIds : s.sockets[k] = "free"}

\* .then((port) => { this.ws = new WebSocket(...); bind the four callbacks })
connectThen(s, port) ==
    IF FreeSockets(s) = {}
    THEN Overflow(s)
    ELSE LET k == CHOOSE x \in FreeSockets(s) : \A y \in FreeSockets(s) : x <= y
         IN [s EXCEPT !.ws = k, !.sockets[k] = "connecting",
                      !.effects = Append(@, Effect("socket", "new WebSocket", [port |-> port, socket |-> k]))]

\* a retry budget that is never checked
RetriesNeverExhausted(s) == FALSE

\* a budget check that takes maxRetries = 0 for a budget of no retry at all
RetriesExhaustedAtZero(s) == s.currentRetry >= options.maxRetries

RetriesExhausted(s) ==
    options.maxRetries # 0 /\ s.currentRetry >= options.maxRetries

\* one more failed pass reached the retry logic
Counted(s) ==
    [s EXCEPT !.failedPasses = IF @ < MaxCounted THEN @ + 1 ELSE MaxCounted]

\* a catch that retries whether or not the caller enabled reconnect
connectCatchAlwaysRetrying(s) ==
    IF s.forceDisconnect # TRUE
    THEN IF RetriesExhausted(s)
         THEN throw(emit(Counted(s), "ConnectionError", "unable to find valid Voicemod port"),
                    "Could not connect to Voicemod API")
         ELSE IF s.currentRetry >= RetryCap
              THEN Overflow(s)
              ELSE [Counted(s) EXCEPT !.currentRetry = @ + 1, !.timers = @ + 1]
    ELSE emit(s, "ConnectionError", "unable to find valid Voicemod port")

\* .catch((e) => { ... })
connectCatch(s) ==
    IF options.reconnect /\ s.forceDisconnect # TRUE
    THEN IF RetriesExhausted(s)
         THEN throw(emit(Counted(s), "ConnectionError", "unable to find valid Voicemod port"),
                    "Could not connect to Voicemod API")
         ELSE IF s.currentRetry >= RetryCap
              THEN Overflow(s)
              ELSE [Counted(s) EXCEPT !.currentRetry = @ + 1, !.timers = @ + 1]
    ELSE emit(s, "ConnectionError", "unable to find valid Voicemod port")

\* the setTimeout callback armed by connectCatch
retryTimer(s) == connect(emit([s EXCEPT !.timers = @ - 1], "ConnectionRetry", None))

(***************************************************************************)
(* websocket.ts: onDisconnect(), disconnect()                              *)
(***************************************************************************)
\* a reconnect that waits for the retry timer
onDisconnectThenWait(s) ==
    LET s1 == emit(s, "Disconnected", None)
        s2 == [s1 EXCEPT !.ws = Null, !.connected = FALSE]
    IN IF options.reconnect /\ s2.forceDisconnect # TRUE
       THEN [s2 EXCEPT !.timers = @ + 1]
       ELSE s2

\* a tear-down that also forgets what the lost connection had cached
onDisconnectForgetting(s) ==
    LET s1 == emit(s, "Disconnected", None)
        s2 == [s1 EXCEPT !.ws = Null, !.connected = FALSE,
                         !.voicemodState = [f \in {} |-> None]]
    IN IF options.reconnect /\ s2.forceDisconnect # TRUE
       THEN connect(emit(s2, "ConnectionRetry", None))
       ELSE s2

onDisconnect(s) ==
    LET s1 == emit(s, "Disconnected", None)
        s2 == [s1 EXCEPT !.ws = Null, !.connected = FALSE]
    IN IF options.reconnect /\ s2.forceDisconnect # TRUE
       THEN connect(emit(s2, "ConnectionRetry", None))
       ELSE s2

\* WebSocket.close() of the ws library, by the state of the socket
wsClose(state) ==
    CASE state = "open"       -> "closing"   \* the close callback follows
      [] state = "connecting" -> "aborted"   \* the error and the close callback follow
      [] OTHER                -> state

\* EventEmitter.removeAllListeners(): the promises behind the listeners stay pending
removeAllListeners(s) ==
    [s EXCEPT !.internalEvents = <<>>,
              !.orphaned = @ \/ s.internalEvents # <<>>]

disconnect(s) ==
    IF s.connected # FALSE /\ s.ws # Null
    THEN LET s1 == [s EXCEPT !.forceDisconnect = TRUE,
                             !.sockets[s.ws] = wsClose(@),
                             !.effects = Append(@, Effect("socket", "close", [socket |-> s.ws]))]
         IN emit(removeAllListeners(s1), "ConnectionClosed", None)
    ELSE s

(***************************************************************************)
(* websocket.ts: wsSendMessage(), internalEvent(), wsGet()                 *)
(***************************************************************************)
Listener(id, action, caller, ctx) ==
    [id |-> id, action |-> action, caller |-> caller, ctx |-> ctx]

\* settings (walk, storeAs, emit) with which the accessors call wsGet
NoSettings == [walk |-> None, storeAs |-> None, emit |-> None]

Settings(action) ==
    CASE action = "getUser" ->
            [walk |-> "userId", storeAs |-> "user", emit |-> "UserChanged"]
      [] action = "getUserLicense" ->
            [walk |-> "licenseType", storeAs |-> "userLicense", emit |-> "UserLicenseChanged"]
      [] action = "getVoices" ->
            [walk |-> "voices", storeAs |-> "voiceList", emit |-> "VoiceListChanged"]
      [] action = "getCurrentVoice" ->
            [walk |-> "voiceID", storeAs |-> "currentVoice", emit |-> None]
      [] action = "getAllSoundboard" ->
            [walk |-> "soundboards", storeAs |-> "soundboards", emit |-> "SoundboardListChanged"]
      [] action = "getActiveSoundboardProfile" ->
            [walk |-> "profileId", storeAs |-> None, emit |-> None]
      [] action = "getMemes" ->
            [walk |-> "memes", storeAs |-> "memes", emit |-> "MemeListChanged"]
      [] action = "getRotatoryVoicesRemainingTime" ->
            [walk |-> "remainingTime", storeAs |-> None, emit |-> None]
      [] action \in {"getHearMyselfStatus", "toggleHearMyVoice"} ->
            [walk |-> "value", storeAs |-> "hearMyselfStatus", emit |-> "HearMyselfStatusChanged"]
      [] action \in {"getVoiceChangerStatus", "toggleVoiceChanger"} ->
            [walk |-> "value", storeAs |-> "voiceChangerStatus", emit |-> "VoiceChangerStatusChanged"]
      [] action \in {"getBackgroundEffectStatus", "toggleBackgroundEffects"} ->
            [walk |-> "value", storeAs |-> "backgroundEffectsStatus",
             emit |-> "BackgroundEffectStatusChanged"]
      [] action \in {"getMuteMicStatus", "toggleMuteMic"} ->
            [walk |-> "value", storeAs |-> "muteMicStatus", emit |-> "MuteMicStatusChanged"]
      [] action \in {"getMuteMemeForMeStatus", "toggleMuteMemeForMe"} ->
            [walk |-> "value", storeAs |-> "muteMemeForMeStatus",
             emit |-> "MuteMemeForMeStatusChanged"]
      [] OTHER -> NoSettings

\* a guard that asks for a transport but not for the ready flag
CanSendOnAnyTransport(s, action) ==
    /\ s.ws # Null
    /\ s.sockets[s.ws] # "connecting"

\* the guard of wsSendMessage and the readyState check of WebSocket.send()
CanSend(s, action) ==
    /\ ~(s.ws = Null \/ (s.connected = FALSE /\ action # "registerClient"))
    /\ s.sockets[s.ws] # "connecting"

\* wsSendMessage followed by internalEvent: the frame goes out on this.ws, the once-listener
\* for the fresh id is registered
wsSendMessage(s, action, id) ==
    IF s.sockets[s.ws] = "open"
    THEN [s EXCEPT !.effects = Append(@, Effect("send", action, [id |-> id, socket |-> s.ws]))]
    ELSE s

wsGet(s, action, id, caller, ctx) ==
    IF ~CanSend(s, action)
    THEN [s EXCEPT !.threw = TRUE]
    ELSE IF Len(s.internalEvents) >= MaxPending
         THEN Overflow(s)
         ELSE [wsSendMessage(s, action, id) EXCEPT
                  !.internalEvents = Append(@, Listener(id, action, caller, ctx)),
                  !.threw = FALSE]

(***************************************************************************)
(* The cache: this.voicemodState, an object whose unset fields are absent  *)
(***************************************************************************)
\* a cache that keeps nothing
StoreNothing(cache, field, value) == cache

Store(cache, field, value) ==
    [f \in DOMAIN cache \cup {field} |-> IF f = field THEN value ELSE cache[f]]

Unset(cache, field) == [f \in DOMAIN cache \ {field} |-> cache[f]]

\* actionObject of an envelope: NoObject when the frame has none
NoObject == [undefined |-> TRUE]

HasObject(data) == "undefined" \notin DOMAIN data.actionObject

\* Array.prototype.filter(x => x.id === id)[0]
RECURSIVE FilterFirst(_, _)
FilterFirst(list, id) ==
    IF list = <<>> THEN [undefined |-> TRUE]
    ELSE IF Head(list).id = id THEN Head(list) ELSE FilterFirst(Tail(list), id)

(***************************************************************************)
(* websocket.ts: the continuation of wsGet once its promise is resolved    *)
(***************************************************************************)
Walks(action) == Settings(action).walk # None

\* result.actionObject[walk] is defined
HasResult(action, data) ==
    IF Walks(action)
    THEN HasObject(data) /\ Settings(action).walk \in DOMAIN data.actionObject
    ELSE TRUE

Result(action, data) ==
    IF Walks(action) THEN data.actionObject[Settings(action).walk] ELSE data

wsGetResume(s, l, data) ==
    LET set == Settings(l.action)
        s0  == [s EXCEPT !.effects =
                    Append(@, Effect("resolve", l.action,
                                      [id |-> l.id, data |-> data, caller |-> l.caller,
                                       ctx |-> l.ctx]))]
    IN IF Walks(l.action) /\ ~HasObject(data)
       THEN \* TypeError inside the try block: throw new Error(`Could not get ${action}`)
            [s0 EXCEPT !.threw = TRUE]
       ELSE LET s1 == IF set.storeAs = None THEN s0
                      ELSE IF HasResult(l.action, data)
                           THEN [s0 EXCEPT !.voicemodState =
                                    Store(@, set.storeAs, Result(l.action, data))]
                           ELSE [s0 EXCEPT !.voicemodState = Unset(@, set.storeAs)]
                s2 == IF set.emit = None THEN s1
                      ELSE IF HasResult(l.action, data)
                           THEN emit(s1, set.emit, Result(l.action, data))
                           ELSE emit(s1, set.emit, None)
            IN [s2 EXCEPT !.threw = FALSE]

(***************************************************************************)
(* websocket.ts: registerClient() and onOpen()                             *)
(***************************************************************************)
\* a comparison of the code with the string "200"
IsExactlyTheString200(code) == code = <<"2", "0", "0">>

\* parseInt(reply.payload.status.code) === 200
IsSuccessCode(code) == parseInt(code) = [nan |-> FALSE, value |-> 200]

\* the catch block of onOpen
onOpenCatch(s) == emit(s, "ClientRegistrationFailed", None)

\* the catch block of registerClient, whose error reaches the catch block of onOpen
registerClientCatch(s) ==
    onOpenCatch(emit(onDisconnect(s), "ClientRegistrationFailed", None))

\* this.emit('ClientRegistered', reply): the listeners of the caller run inside emit;
\* the listener of the test calls getVoices(), which runs up to its first await
emitClientRegistered(s, data, id) ==
    LET s1 == emit(s, "ClientRegistered", data)
    IN IF "ClientRegistered" \in handlers
       THEN LET s2 == wsGet(s1, "getVoices", id, "accessor", None)
            IN IF s2.threw
               THEN [s2 EXCEPT !.threw = FALSE,
                               !.effects = Append(@, Effect("reject", "getVoices",
                                                            "Could not get"))]
               ELSE s2
       ELSE s1

\* registerClient after `await this.wsGet('registerClient', ...)`, then onOpen after
\* `await this.registerClient(...)`; id is the correlation id a listener of
\* ClientRegistered draws
registerClientResume(s, l, data, id) ==
    LET s1 == wsGetResume(s, l, data)
    IN IF s1.threw \/ data.code = NoPayload
       THEN registerClientCatch([s1 EXCEPT !.threw = FALSE])
       ELSE LET s2 == IF IsSuccessCode(data.code)
                      THEN emitClientRegistered([s1 EXCEPT !.connected = TRUE], data, id)
                      ELSE emit(onDisconnect(s1), "ClientRegistrationFailed", None)
                s3 == [s2 EXCEPT !.currentRetry = 0, !.failedPasses = 0]
            IN emit(s3, "Connected", None)

onOpen(s, id) ==
    LET s1 == emit(s, "ConnectionOpened", None)
        s2 == wsGet(s1, "registerClient", id, "registerClient", None)
    IN IF s2.threw THEN registerClientCatch([s2 EXCEPT !.threw = FALSE]) ELSE s2

(***************************************************************************)
(* websocket.ts: onVoiceChange(), getVoiceFromId(), getVoices()            *)
(***************************************************************************)
\* getVoiceFromId after `await this.getVoices()`, then onVoiceChange
onVoiceChangeResume(s, l, data) ==
    LET s1 == wsGetResume(s, l, data)
    IN IF s1.threw
       THEN throw([s1 EXCEPT !.threw = FALSE], "Could not get getVoices")
       ELSE IF ~HasResult(l.action, data)
            THEN throw(s1, "No voices found")
            ELSE emit(s1, "VoiceChanged", FilterFirst(Result(l.action, data), l.ctx))

\* a handler that fetches the list but leaves the cached id alone
onVoiceChangeKeepingTheCache(s, voiceID, id) ==
    LET s2 == wsGet(s, "getVoices", id, "onVoiceChange", voiceID)
    IN IF s2.threw
       THEN throw([s2 EXCEPT !.threw = FALSE], "Could not get getVoices")
       ELSE s2

onVoiceChange(s, voiceID, id) ==
    LET s1 == [s EXCEPT !.voicemodState =
                     IF voiceID = None THEN Unset(@, "currentVoice")
                     ELSE Store(@, "currentVoice", voiceID)]
        s2 == wsGet(s1, "getVoices", id, "onVoiceChange", voiceID)
    IN IF s2.threw
       THEN throw([s2 EXCEPT !.threw = FALSE], "Could not get getVoices")
       ELSE s2

\* an accessor without a continuation of its own, after `await this.wsGet(...)`
\* the promise an accessor returned is rejected / resolved with value
reject(s, accessor, message) ==
    [s EXCEPT !.threw = FALSE,
              !.effects = Append(@, Effect("reject", accessor, message))]

return(s, accessor, value) ==
    [s EXCEPT !.effects = Append(@, Effect("return", accessor, value))]

\* what wsGet resolved with: the walked field, undefined when the response lacks it
Returned(action, data) ==
    IF HasResult(action, data) THEN Result(action, data) ELSE None

accessorResume(s, l, data) ==
    LET s1 == wsGetResume(s, l, data)
    IN IF s1.threw
       THEN reject(s1, l.action, "Could not get")
       ELSE return(s1, l.action, Returned(l.action, data))

\* getVoiceFromId(l.ctx) after `await this.getVoices()`, called by getCurrentVoice:
\* on the cached path its result is returned, on the fetched path it is emitted too
getCurrentVoiceLookup(s, l, data) ==
    LET s1 == wsGetResume(s, l, data)
    IN IF s1.threw
       THEN reject(s1, "getCurrentVoice", "Could not get getVoices")
       ELSE IF ~HasResult(l.action, data)
            THEN reject(s1, "getCurrentVoice", "No voices found")
            ELSE LET voice == FilterFirst(Result(l.action, data), l.ctx)
                 IN return(IF l.caller = "getCurrentVoiceFetched"
                           THEN emit(s1, "VoiceChanged", voice) ELSE s1,
                           "getCurrentVoice", voice)

\* getCurrentVoice after `await this.wsGet('getCurrentVoice', ...)`
getCurrentVoiceResume(s, l, data, id) ==
    LET s1 == wsGetResume(s, l, data)
    IN IF s1.threw
       THEN reject(s1, "getCurrentVoice", "Could not get getCurrentVoice")
       ELSE LET s2 == wsGet(s1, "getVoices", id, "getCurrentVoiceFetched",
                            Returned(l.action, data))
            IN IF s2.threw
               THEN reject(s2, "getCurrentVoice", "Could not get getVoices")
               ELSE s2

\* loadVoice after `await this.wsGet('loadVoice', payload)`: onVoiceChange(voiceID)
loadVoiceResume(s, l, data, id) ==
    LET s1 == wsGetResume(s, l, data)
    IN IF s1.threw
       THEN reject(s1, "loadVoice", "Could not get loadVoice")
       ELSE onVoiceChange(s1, l.ctx, id)

\* callers whose continuation sends a request of its own
Chained == {"getCurrentVoice", "loadVoice"}

resume(s, l, data, id) ==
    CASE l.caller = "registerClient" -> registerClientResume(s, l, data, id)
      [] l.caller = "onVoiceChange"  -> onVoiceChangeResume(s, l, data)
      [] l.caller = "getCurrentVoice" -> getCurrentVoiceResume(s, l, data, id)
      [] l.caller \in {"getCurrentVoiceFetched", "getCurrentVoiceCached"} ->
            getCurrentVoiceLookup(s, l, data)
      [] l.caller = "loadVoice"      -> loadVoiceResume(s, l, data, id)
      [] OTHER                       -> accessorResume(s, l, data)

(***************************************************************************)
(* websocket.ts: the accessors, up to their first await                    *)
(***************************************************************************)
\* a cache check that never finds a value
NeverCached(cache, field) == FALSE

\* this.voicemodState[field] != null
IsCached(cache, field) == field \in DOMAIN cache

\* the get accessors that start with the cache check of their storeAs field
CachedGetters ==
    {"getUser", "getUserLicense", "getAllSoundboard", "getMemes", "getHearMyselfStatus",
     "getVoiceChangerStatus", "getBackgroundEffectStatus", "getMuteMicStatus",
     "getMuteMemeForMeStatus"}

\* the cache field behind a get accessor
CacheField(action) ==
    CASE action = "getVoices"       -> "voiceList"
      [] action = "getCurrentVoice" -> "currentVoice"
      [] OTHER                      -> Settings(action).storeAs

\* an accessor whose body is `return this.wsGet(action, payload, settings)`; arg is
\* the argument of a set/toggle accessor
request(s, action, id, caller, arg) ==
    LET s1 == wsGet(s, action, id, caller, arg)
    IN IF s1.threw THEN reject(s1, action, "Could not get") ELSE s1

\* getUser, getUserLicense, getAllSoundboard, getMemes and the get...Status accessors
get(s, action, id) ==
    IF IsCached(s.voicemodState, CacheField(action))
    THEN return(s, action, s.voicemodState[CacheField(action)])
    ELSE request(s, action, id, "accessor", None)

getCurrentVoice(s, id) ==
    IF IsCached(s.voicemodState, "currentVoice")
    THEN \* return this.getVoiceFromId(this.voicemodState.currentVoice)
         LET s1 == wsGet(s, "getVoices", id, "getCurrentVoiceCached",
                         s.voicemodState["currentVoice"])
         IN IF s1.threw THEN reject(s1, "getCurrentVoice", "Could not get getVoices")
            ELSE s1
    ELSE LET s1 == wsGet(s, "getCurrentVoice", id, "getCurrentVoice", None)
         IN IF s1.threw THEN reject(s1, "getCurrentVoice", "Could not get getCurrentVoice")
            ELSE s1

loadVoice(s, voiceID, id) ==
    LET s1 == wsGet(s, "loadVoice", id, "loadVoice", voiceID)
    IN IF s1.threw THEN reject(s1, "loadVoice", "Could not get loadVoice") ELSE s1

\* the accessor called, by its name; arg is the argument of a set/toggle accessor
accessor(s, action, arg, id) ==
    CASE action \in CachedGetters   -> get(s, action, id)
      [] action = "getCurrentVoice" -> getCurrentVoice(s, id)
      [] action = "loadVoice"       -> loadVoice(s, arg, id)
      [] OTHER                      -> request(s, action, id, "accessor", arg)

(***************************************************************************)
(* internalEvents.emit(id, data): every once-listener registered under id  *)
(* is removed and its promise resolved; the continuations run in           *)
(* registration order                                                      *)
(***************************************************************************)
\* a correlator that hands a response to whoever waits
MatchesAnyListener(l, key) == TRUE

Matches(l, key) == l.id = key

RECURSIVE resumeAll(_, _, _, _)
resumeAll(s, listeners, data, id) ==
    IF listeners = <<>> THEN s
    ELSE resumeAll(resume(s, Head(listeners), data, id), Tail(listeners), data, id)

\* an emitter that calls only the oldest listener of the key
internalEventsEmitFirst(s, key, data, id) ==
    LET hits == {i \in DOMAIN s.internalEvents : Matches(s.internalEvents[i], key)}
    IN IF hits = {} THEN s
       ELSE LET i == CHOOSE x \in hits : \A y \in hits : x <= y
            IN resume([s EXCEPT !.internalEvents =
                           SubSeq(@, 1, i - 1) \o SubSeq(@, i + 1, Len(@))],
                      s.internalEvents[i], data, id)

\* id is the correlation id drawn if a continuation sends a request
internalEventsEmit(s, key, data, id) ==
    LET hit  == SelectSeq(s.internalEvents, LAMBDA l : Matches(l, key))
        rest == SelectSeq(s.internalEvents, LAMBDA l : ~Matches(l, key))
    IN resumeAll([s EXCEPT !.internalEvents = rest], hit, data, id)

(***************************************************************************)
(* websocket.ts: onMessage()                                               *)
(***************************************************************************)
\* the static table of the spontaneous events: cache field, public event, value
eventTable(action) ==
    CASE action = "voiceChangerEnabledEvent" ->
            [field |-> "voiceChangerStatus", event |-> "VoiceChangerStatusChanged", value |-> TRUE]
      [] action = "voiceChangerDisabledEvent" ->
            [field |-> "voiceChangerStatus", event |-> "VoiceChangerStatusChanged", value |-> FALSE]
      [] action = "backgroundEffectsEnabledEvent" ->
            [field |-> "backgroundEffectsStatus", event |-> "BackgroundEffectStatusChanged",
             value |-> TRUE]
      [] action = "backgroundEffectsDisabledEvent" ->
            [field |-> "backgroundEffectsStatus", event |-> "BackgroundEffectStatusChanged",
             value |-> FALSE]
      [] action = "hearMySelfEnabledEvent" ->
            [field |-> "hearMyselfStatus", event |-> "HearMyselfStatusChanged", value |-> TRUE]
      [] action = "hearMySelfDisabledEvent" ->
            [field |-> "hearMyselfStatus", event |-> "HearMyselfStatusChanged", value |-> FALSE]
      [] action = "muteMicEnabledEvent" ->
            [field |-> "muteMicStatus", event |-> "MuteMicStatusChanged", value |-> TRUE]
      [] action = "muteMicDisabledEvent" ->
            [field |-> "muteMicStatus", event |-> "MuteMicStatusChanged", value |-> FALSE]
      [] action = "muteMemeForMeEnabledEvent" ->
            [field |-> "muteMemeForMeStatus", event |-> "MuteMemeForMeStatusChanged",
             value |-> TRUE]
      [] action = "muteMemeForMeDisabledEvent" ->
            [field |-> "muteMemeForMeStatus", event |-> "MuteMemeForMeStatusChanged",
             value |-> FALSE]
      [] action = "badLanguageEnabledEvent" ->
            [field |-> None, event |-> "BadLanguageStatusChanged", value |-> TRUE]
      [] action = "badLanguageDisabledEvent" ->
            [field |-> None, event |-> "BadLanguageStatusChanged", value |-> FALSE]
      [] OTHER -> [field |-> None, event |-> None, value |-> FALSE]

\* a branch that announces the status events without writing the cache
onAppEventAnnouncingOnly(s, data, id) ==
    LET row == eventTable(data.action)
    IN IF row.event # None
       THEN emit(s, row.event, row.value)
       ELSE IF data.action = "voiceLoadedEvent"
            THEN IF ~HasObject(data)
                 THEN throw(s, "TypeError")
                 ELSE IF "voiceID" \in DOMAIN data.actionObject
                      THEN onVoiceChange(s, data.actionObject.voiceID, id)
                      ELSE onVoiceChange(s, None, id)
            ELSE throw(s, "Unknown event")

\* the branch of the events triggered by the app
onAppEvent(s, data, id) ==
    LET row == eventTable(data.action)
    IN IF row.event # None
       THEN emit(IF row.field = None THEN s
                 ELSE [s EXCEPT !.voicemodState = Store(@, row.field, row.value)],
                 row.event, row.value)
       ELSE IF data.action = "voiceLoadedEvent"
            THEN IF ~HasObject(data)
                 THEN throw(s, "TypeError")
                 ELSE IF "voiceID" \in DOMAIN data.actionObject
                      THEN onVoiceChange(s, data.actionObject.voiceID, id)
                      ELSE onVoiceChange(s, None, id)
            ELSE throw(s, "Unknown event")

\* the branch of the list updates triggered by the app
onListUpdate(s, data) ==
    IF data.action = "getAllSoundboard"
    THEN IF ~HasObject(data)
         THEN throw(s, "TypeError")
         ELSE IF "soundboards" \in DOMAIN data.actionObject
              THEN emit([s EXCEPT !.voicemodState =
                            Store(@, "soundboards", data.actionObject.soundboards)],
                        "SoundboardListChanged", data.actionObject.soundboards)
              ELSE emit([s EXCEPT !.voicemodState = Unset(@, "soundboards")],
                        "SoundboardListChanged", None)
    ELSE s

\* this.emit(actionMap[data.actionType], data.actionObject)
emitMapped(s, data) ==
    IF actionMap(data.actionType) = None THEN s
    ELSE emit(s, actionMap(data.actionType), data.actionObject)

\* data.id || data.actionID
EchoedId(data) == IF Truthy(data.id) THEN data.id ELSE data.actionID

\* a router that looks at the action name before it looks for an id
onMessageEventTableFirst(s, data, id) ==
    LET s1 == emit(s, "AllEvents", data)
    IN IF Truthy(data.msg) /\ toLowerCase(data.msg) = "pending authentication"
       THEN emit(s1, "ClientRegistrationPending", None)
       ELSE IF Truthy(data.action) /\ data.action = "registerClient"
       THEN internalEventsEmit(s1, data.id, data, id)
       ELSE IF Truthy(data.action) /\ endsWithEvent(data.action)
       THEN onAppEvent(s1, data, id)
       ELSE IF Truthy(data.id) \/ Truthy(data.actionID)
       THEN internalEventsEmit(emitMapped(s1, data), EchoedId(data), data, id)
       ELSE IF Truthy(data.action)
       THEN onListUpdate(s1, data)
       ELSE throw(s1, "Unknown message")

\* a router that broadcasts on AllEvents only the frames it can classify
onMessageBroadcastingClassified(s, data, id) ==
    LET s1 == emit(s, "AllEvents", data)
    IN IF Truthy(data.msg) /\ toLowerCase(data.msg) = "pending authentication"
       THEN emit(s1, "ClientRegistrationPending", None)
       ELSE IF Truthy(data.action) /\ data.action = "registerClient"
       THEN internalEventsEmit(s1, data.id, data, id)
       ELSE IF Truthy(data.id) \/ Truthy(data.actionID)
       THEN internalEventsEmit(emitMapped(s1, data), EchoedId(data), data, id)
       ELSE IF Truthy(data.action) /\ endsWithEvent(data.action)
       THEN IF eventTable(data.action).event = None /\ data.action # "voiceLoadedEvent"
            THEN onAppEvent(s, data, id)
            ELSE onAppEvent(s1, data, id)
       ELSE IF Truthy(data.action)
       THEN onListUpdate(s1, data)
       ELSE throw(s, "Unknown message")

\* id is the correlation id drawn if the handler, or a continuation it resumes, sends
\* a request
onMessage(s, data, id) ==
    LET s1 == emit(s, "AllEvents", data)
    IN IF Truthy(data.msg) /\ toLowerCase(data.msg) = "pending authentication"
       THEN emit(s1, "ClientRegistrationPending", None)
       ELSE IF Truthy(data.action) /\ data.action = "registerClient"
       THEN internalEventsEmit(s1, data.id, data, id)
       ELSE IF Truthy(data.id) \/ Truthy(data.actionID)
       THEN internalEventsEmit(emitMapped(s1, data), EchoedId(data), data, id)
       ELSE IF Truthy(data.action) /\ endsWithEvent(data.action)
       THEN onAppEvent(s1, data, id)
       ELSE IF Truthy(data.action)
       THEN onListUpdate(s1, data)
       ELSE throw(s1, "Unknown message")

(***************************************************************************)
(* websocket.ts: onClose(), onError()                                      *)
(***************************************************************************)
\* a close callback that announces the close before it tears the session down
onCloseAnnouncingFirst(s) ==
    onDisconnect(emit([s EXCEPT !.connected = FALSE], "ConnectionClosed", None))

onClose(s) ==
    emit(onDisconnect([s EXCEPT !.connected = FALSE]), "ConnectionClosed", None)

onError(s) ==
    emit(onDisconnect([s EXCEPT !.connected = FALSE]), "ConnectionError", "event")

(***************************************************************************)
(* Frames the application may send                                         *)
(***************************************************************************)
Codes == {<<"2", "0", "0">>, <<"0", "2", "0", "0">>, <<"4", "0", "3">>}

AuthReplies ==
    {Envelope(None, "registerClient", i, None, None, NoObject, c) : i \in Ids, c \in Codes}

Responses ==
    {Envelope(None, None, "0.a", None, "getBitmap", NoObject, NoPayload),
     Envelope(None, None, None, "0.b", "getBitmap", NoObject, NoPayload),
     Envelope(None, None, "0.a", "0.b", "getBitmap", NoObject, NoPayload)}

Notices ==
    {Envelope("Pending authentication", None, None, None, None, NoObject, NoPayload)}

Pushes ==
    {Envelope(None, a, None, None, None, NoObject, NoPayload) :
        a \in {"voiceChangerEnabledEvent", "licenseChangedEvent"}}

Unknown == {Envelope(None, None, None, None, None, NoObject, NoPayload)}

Frames == AuthReplies \cup Responses \cup Notices \cup Pushes \cup Unknown

\* actions the accessor layer requests through wsGet
RequestActions == {"getBitmap"}

\* voices of the application, and the voice list it answers getVoices with
Voice(id) == [id |-> id, friendlyName |-> id]

VoiceIds == {"v1", "v2"}

VoiceList == <<Voice("v1")>>

\* responses of the application to the requests of the accessors
AccessorResponses ==
    {Envelope(None, None, None, i, r.actionType, r.actionObject, NoPayload) :
        i \in Ids,
        r \in {[actionType |-> "getUser", actionObject |-> [userId |-> "u1"]],
               [actionType |-> "toggleVoiceChanger", actionObject |-> [value |-> FALSE]],
               [actionType |-> "getVoices", actionObject |-> [voices |-> VoiceList]],
               [actionType |-> "getCurrentVoice", actionObject |-> [voiceID |-> "v2"]],
               [actionType |-> "loadVoice", actionObject |-> NoObject]}}

\* events the application sends on its own
AccessorPushes ==
    {Envelope(None, "voiceChangerEnabledEvent", None, None, None, NoObject, NoPayload)}
    \cup {Envelope(None, "voiceLoadedEvent", None, None, None, [voiceID |-> v], NoPayload) :
             v \in VoiceIds}

\* the accessors the caller calls, with the argument of the set/toggle accessors
AccessorCalls ==
    <<[action |-> "getUser", arg |-> None],
      [action |-> "getVoiceChangerStatus", arg |-> None],
      [action |-> "getVoices", arg |-> None],
      [action |-> "getCurrentVoice", arg |-> None],
      [action |-> "toggleVoiceChanger", arg |-> TRUE],
      [action |-> "loadVoice", arg |-> "v2"]>>

\* the correlation ids onMessage may draw while it processes data: one is drawn when
\* the handler (voiceLoadedEvent) or a continuation it resumes sends a request
IdsFor(s, data) ==
    IF \/ data.action = "voiceLoadedEvent"
       \/ data.action = "registerClient" /\ handlers # {}
       \/ \E i \in DOMAIN s.internalEvents :
             /\ s.internalEvents[i].caller \in Chained
             /\ s.internalEvents[i].id \in {data.id, data.actionID}
    THEN Ids
    ELSE {None}

(***************************************************************************)
(* Specification                                                           *)
(***************************************************************************)
Init ==
    /\ options \in OptionChoices
    /\ connected = FALSE
    /\ ws = Null
    /\ forceDisconnect = FALSE
    /\ currentRetry = 1
    /\ internalEvents = <<>>
    /\ orphaned = FALSE
    /\ voicemodState = [f \in {} |-> None]
    /\ passes = EmptyBag
    /\ timers = 0
    /\ sockets = [k \in SocketIds |-> "free"]
    /\ handlers = {}
    /\ failedPasses = 0
    /\ lastOp = [op |-> "constructor"]
    /\ effects = <<>>

\* the caller registered, before connect(), a ClientRegistered listener that calls
\* getVoices(), as the test of the repository does
InitListening ==
    /\ options \in OptionChoices
    /\ connected = FALSE
    /\ ws = Null
    /\ forceDisconnect = FALSE
    /\ currentRetry = 1
    /\ internalEvents = <<>>
    /\ orphaned = FALSE
    /\ voicemodState = [f \in {} |-> None]
    /\ passes = EmptyBag
    /\ timers = 0
    /\ sockets = [k \in SocketIds |-> "free"]
    /\ handlers = {"ClientRegistered"}
    /\ failedPasses = 0
    /\ lastOp = [op |-> "constructor"]
    /\ effects = <<>>

\* the step of one callback: s is the object after it, op names the callback
Apply(s, op) ==
    /\ ~s.overflow
    /\ connected' = s.connected
    /\ ws' = s.ws
    /\ forceDisconnect' = s.forceDisconnect
    /\ currentRetry' = s.currentRetry
    /\ internalEvents' = s.internalEvents
    /\ orphaned' = s.orphaned
    /\ voicemodState' = s.voicemodState
    /\ passes' = s.passes
    /\ timers' = s.timers
    /\ sockets' = s.sockets
    /\ failedPasses' = s.failedPasses
    /\ effects' = s.effects
    /\ lastOp' = op
    /\ UNCHANGED <<options, handlers>>

\* the correlation ids of the requests that wait for their response, oldest first
PendingIds(s) == [i \in DOMAIN s.internalEvents |-> s.internalEvents[i].id]

\* the caller calls connect()
Connect ==
    \E s \in {connect(This)} :
        Apply(s, [op |-> "connect", started |-> ~connected])

\* the caller calls disconnect()
Disconnect ==
    \E s \in {disconnect(This)} :
        Apply(s, [op |-> "disconnect", ready |-> connected /\ ws # Null,
                  outstanding |-> Len(internalEvents)])

\* the caller calls an accessor that goes through wsGet
Request ==
    \E action \in RequestActions, id \in Ids :
        LET s == wsGet(This, action, id, "accessor", None)
        IN Apply(IF s.threw THEN reject(s, action, "Could not get") ELSE s,
                 [op |-> "wsGet", action |-> action])

\* connected, and this.ws is an open socket
Ready(s) == s.connected /\ s.ws # Null /\ s.sockets[s.ws] = "open"

\* the caller calls an accessor
Accessor ==
    \E n \in DOMAIN AccessorCalls, id \in Ids :
        LET call == AccessorCalls[n]
        IN Apply(accessor(This, call.action, call.arg, id),
                 [op |-> "accessor", action |-> call.action, ready |-> Ready(This),
                  cached |-> CacheField(call.action) \in DOMAIN voicemodState])

\* a probe of a discovery pass ends in close or error and the loop goes on
ProbeFailed ==
    \E pass \in DOMAIN passes :
        LET r == getVoicemodPort(pass, FALSE)
        IN /\ r.outcome = "next"
           /\ Apply([This EXCEPT !.passes = BagAdd(BagRemove(@, pass), r.pass)],
                    [op |-> "getVoicemodPort", outcome |-> "next", port |-> 0, pass |-> r.pass])

\* the probe of the last candidate ends in close or error: getVoicemodPort throws
DiscoveryFailed ==
    \E pass \in DOMAIN passes :
        LET r == getVoicemodPort(pass, FALSE)
        IN /\ r.outcome = "failed"
           /\ Apply(connectCatch([This EXCEPT !.passes = BagRemove(@, pass)]),
                    [op |-> "getVoicemodPort", outcome |-> "failed", port |-> 0, pass |-> r.pass])

\* a probe completes the open handshake: getVoicemodPort returns its port
ProbeOpened ==
    \E pass \in DOMAIN passes :
        LET r == getVoicemodPort(pass, TRUE)
        IN Apply(connectThen([This EXCEPT !.passes = BagRemove(@, pass)], r.port),
                 [op |-> "getVoicemodPort", outcome |-> r.outcome, port |-> r.port,
                  pass |-> r.pass])

\* a retry timer expires
RetryTimer ==
    /\ timers > 0
    /\ Apply(retryTimer(This), [op |-> "retryTimer", started |-> ~connected])

\* the open callback of socket k
SocketOpen ==
    \E k \in SocketIds, id \in Ids :
        /\ sockets[k] = "connecting"
        /\ Apply(onOpen([This EXCEPT !.sockets[k] = "open"], id),
                 [op |-> "onOpen"])

\* a frame out of `frames` arrives on a socket
Receive(frames) ==
    \E k \in SocketIds, data \in frames :
        \E id \in IdsFor(This, data) :
            /\ sockets[k] = "open"
            /\ Apply(onMessage(This, data, id),
                     [op |-> "onMessage", data |-> data, waiting |-> PendingIds(This)])

\* a frame of the registration handshake arrives
SessionMessage == Receive(AuthReplies \cup Notices)

\* any frame arrives
SocketMessage == Receive(Frames)

\* a response to an accessor's request or an event of the application arrives
AccessorMessage == Receive(AccessorResponses \cup AccessorPushes)

\* the error callback of socket k; its close callback follows
SocketError ==
    \E k \in SocketIds :
        /\ sockets[k] \in {"connecting", "open", "aborted"}
        /\ Apply(onError([This EXCEPT !.sockets[k] = "closing"]),
                 [op |-> "onError"])

\* the close callback of socket k
SocketClose ==
    \E k \in SocketIds :
        /\ sockets[k] \in {"open", "closing"}
        /\ Apply(onClose([This EXCEPT !.sockets[k] = "free"]),
                 [op |-> "onClose"])

\* The session engine: discovery, connection, registration, retry and disconnect
Next ==
    \/ Connect
    \/ Disconnect
    \/ ProbeFailed
    \/ DiscoveryFailed
    \/ ProbeOpened
    \/ RetryTimer
    \/ SocketOpen
    \/ SessionMessage
    \/ SocketError
    \/ SocketClose

Spec == Init /\ [][Next]_vars

\* The correlator: requests of the accessor layer and every kind of frame, with the
\* application listening on the first candidate port and sockets that end by closing
NextRequests ==
    \/ Connect
    \/ Disconnect
    \/ Request
    \/ ProbeOpened
    \/ SocketOpen
    \/ SocketMessage
    \/ SocketClose

SpecRequests == Init /\ [][NextRequests]_vars

\* The application is not running: every probe ends in close or error.  A probe
\* ends (the TCP connect fails or times out) and an armed timer expires.
NextDown ==
    \/ Connect
    \/ ProbeFailed
    \/ DiscoveryFailed
    \/ RetryTimer

\* Discovery alone: the passes of connect() and of the retry timers, up to the
\* creation of the socket on the port that was found
NextDiscovery ==
    \/ Connect
    \/ ProbeFailed
    \/ DiscoveryFailed
    \/ ProbeOpened
    \/ RetryTimer

SpecDiscovery == Init /\ [][NextDiscovery]_vars

\* A ready session: the state in which connect(), the first candidate port found, the
\* open callback and the reply "200" to registerClient (sent with the id "0.a") leave
\* the object of a caller who did not enable reconnect
Accepted == Envelope(None, "registerClient", "0.a", None, None, NoObject, <<"2", "0", "0">>)

InitReady ==
    /\ options \in {o \in OptionChoices : ~o.reconnect}
    /\ connected = TRUE
    /\ ws = 1
    /\ forceDisconnect = FALSE
    /\ currentRetry = 0
    /\ internalEvents = <<>>
    /\ orphaned = FALSE
    /\ voicemodState = [f \in {} |-> None]
    /\ passes = EmptyBag
    /\ timers = 0
    /\ sockets = [k \in SocketIds |-> IF k = 1 THEN "open" ELSE "free"]
    /\ handlers = {}
    /\ failedPasses = 0
    /\ lastOp = [op |-> "onMessage", data |-> Accepted, waiting |-> <<"0.a">>]
    /\ effects = <<Effect("emit", "AllEvents", Accepted),
                   Effect("resolve", "registerClient",
                          [id |-> "0.a", data |-> Accepted, caller |-> "registerClient",
                           ctx |-> None]),
                   Effect("emit", "ClientRegistered", Accepted),
                   Effect("emit", "Connected", None)>>

\* The accessor layer on a ready session: accessor calls, the responses to their
\* requests and the events of the application
NextAccessors ==
    \/ Accessor
    \/ AccessorMessage

SpecAccessors == InitReady /\ [][NextAccessors]_vars

\* the request actions that have a changed-event
RoundTripActions ==
    {"getUser", "getUserLicense", "getVoices", "getMemes", "getAllSoundboard",
     "getHearMyselfStatus", "toggleHearMyVoice", "getVoiceChangerStatus", "toggleVoiceChanger",
     "getBackgroundEffectStatus", "toggleBackgroundEffects", "getMuteMicStatus",
     "toggleMuteMic", "getMuteMemeForMeStatus", "toggleMuteMemeForMe"}

\* a value of the property the action reports
SampleValue(action) ==
    CASE action = "getUser"          -> "u1"
      [] action = "getUserLicense"   -> "pro"
      [] action = "getVoices"        -> VoiceList
      [] action = "getMemes"         -> <<[FileName |-> "m1"]>>
      [] action = "getAllSoundboard" -> <<[id |-> "s1"]>>
      [] OTHER                       -> TRUE

\* the response of the application to the request behind listener l: the id of the
\* request echoed in the field echo, the action as actionType, and the value under
\* the name the accessor walks to
MatchingResponse(l, echo) ==
    Envelope(None, None,
             IF echo = "id" THEN l.id ELSE None,
             IF echo = "actionID" THEN l.id ELSE None,
             l.action,
             [f \in {Settings(l.action).walk} |-> SampleValue(l.action)],
             NoPayload)

\* the caller calls an accessor whose request has a changed-event
RoundTripCall ==
    \E action \in RoundTripActions, id \in Ids :
        /\ Len(internalEvents) < MaxInFlight
        /\ Apply(accessor(This, action, None, id),
                 [op |-> "accessor", action |-> action, ready |-> Ready(This),
                  cached |-> CacheField(action) \in DOMAIN voicemodState])

\* the matching response to an outstanding request arrives
RoundTripResponse ==
    Receive({MatchingResponse(internalEvents[n], echo) :
                n \in DOMAIN internalEvents, echo \in {"id", "actionID"}})

\* Round trips on a ready session: each request is answered by its matching response
NextRoundTrip ==
    \/ RoundTripCall
    \/ RoundTripResponse

SpecRoundTrip == InitReady /\ [][NextRoundTrip]_vars

\* The message router on a ready session: frames with every combination of the fields
\* the classification reads, while requests of the accessor layer wait for a response
RouterFrames ==
    {Envelope(msg, action, id, actionID, actionType, NoObject, NoPayload) :
        msg \in {None, "Pending authentication"},
        action \in {None, "voiceChangerEnabledEvent", "licenseChangedEvent", "getAllSoundboard",
                    "registerClient"},
        id \in {None, "0.a"},
        actionID \in {None, "0.b"},
        actionType \in {None, "getBitmap", "UserChanged"}}

\* a frame of any shape arrives
RouterMessage == Receive(RouterFrames)

NextRouter ==
    \/ Request
    \/ RouterMessage

SpecRouter == InitReady /\ [][NextRouter]_vars

\* The application listens and accepts the transport; whether and when it sends the
\* authentication reply is up to it.  A probe of a reachable port completes its
\* handshake and the socket created on that port opens.
NextHandshake ==
    \/ Connect
    \/ ProbeOpened
    \/ SocketOpen
    \/ SessionMessage

SpecHandshake ==
    /\ Init
    /\ [][NextHandshake]_vars
    /\ WF_vars(ProbeOpened)
    /\ WF_vars(SocketOpen)

\* The same with a caller who listens to ClientRegistered
SpecListening ==
    /\ InitListening
    /\ [][NextHandshake]_vars

\* the enabled/disabled events of the application, and an update of the soundboard list
StatusPushes ==
    {Envelope(None, a, None, None, None, NoObject, NoPayload) :
        a \in EventActions \ {"voiceLoadedEvent", "licenseChangedEvent"}}
    \cup {Envelope(None, "getAllSoundboard", None, None, None,
                   [soundboards |-> <<[id |-> "s1"]>>], NoPayload)}

\* a spontaneous event of the application arrives
StatusPush == Receive(StatusPushes)

\* A ready session on which the application reports its status changes
NextPushes == StatusPush

SpecPushes == InitReady /\ [][NextPushes]_vars

\* authentication replies with a non-success code
Rejections ==
    {Envelope(None, "registerClient", i, None, None, NoObject, <<"4", "0", "3">>) : i \in Ids}

\* the application rejects a registration
Rejection == Receive(Rejections)

\* a socket that registerClient gave up (this.ws no longer holds it, no request waits
\* for a reply) and that the application keeps open and silent: none of its callbacks
\* runs again, so it plays no further part and its place in the model is free for
\* another socket
SocketAbandoned ==
    \E k \in SocketIds :
        /\ sockets[k] = "open"
        /\ ws # k
        /\ internalEvents = <<>>
        /\ sockets' = [sockets EXCEPT ![k] = "free"]
        /\ lastOp' = [op |-> "abandoned"]
        /\ effects' = <<>>
        /\ UNCHANGED <<options, connected, ws, forceDisconnect, currentRetry, internalEvents,
                       orphaned, voicemodState, passes, timers, handlers, failedPasses>>

\* The application accepts every transport and rejects every registration, and it
\* leaves the sockets it rejected open.  Probes complete, sockets open, the reply to a
\* registration arrives.
NextRejecting ==
    \/ Connect
    \/ ProbeOpened
    \/ SocketOpen
    \/ Rejection
    \/ SocketAbandoned

SpecRejecting ==
    /\ Init
    /\ [][NextRejecting]_vars
    /\ WF_vars(ProbeOpened)
    /\ WF_vars(SocketOpen)
    /\ WF_vars(Rejection)

\* the get accessors a caller uses across connections, and the responses to them
SessionCalls == <<"getUser", "getVoices">>

\* the correlation id their requests draw
SessionIds == {"0.b"}

SessionResponses ==
    {Envelope(None, None, None, i, r.actionType, r.actionObject, NoPayload) :
        i \in SessionIds,
        r \in {[actionType |-> "getUser", actionObject |-> [userId |-> "u1"]],
               [actionType |-> "getVoices", actionObject |-> [voices |-> VoiceList]]}}

\* the caller calls a get accessor, in whatever state the session is
SessionCall ==
    \E n \in DOMAIN SessionCalls, id \in SessionIds :
        Apply(accessor(This, SessionCalls[n], None, id),
              [op |-> "accessor", action |-> SessionCalls[n], ready |-> Ready(This),
               cached |-> CacheField(SessionCalls[n]) \in DOMAIN voicemodState])

\* the response to a get accessor arrives
SessionResponse == Receive(SessionResponses)

\* the application accepts a registration
Acceptance ==
    Receive({Envelope(None, "registerClient", i, None, None, NoObject, <<"2", "0", "0">>) :
                i \in Ids})

\* Sessions that come and go while the caller reads properties: the application
\* listens on the first candidate port and accepts every registration
NextSessions ==
    \/ Connect
    \/ Disconnect
    \/ ProbeOpened
    \/ SocketOpen
    \/ Acceptance
    \/ SocketError
    \/ SocketClose
    \/ SessionCall
    \/ SessionResponse

SpecSessions == Init /\ [][NextSessions]_vars

SpecDown ==
    /\ Init
    /\ [][NextDown]_vars
    /\ WF_vars(ProbeFailed)
    /\ WF_vars(DiscoveryFailed)
    /\ WF_vars(RetryTimer)

(***************************************************************************)
(* Properties                                                              *)
(***************************************************************************)
Emitted(name) == \E i \in DOMAIN effects : effects[i].kind = "emit" /\ effects[i].name = name

Thrown(message) ==
    \E i \in DOMAIN effects : effects[i].kind = "throw" /\ effects[i].name = message

\* the positions in effects where the promise of a request was resolved
Resolutions == {i \in DOMAIN effects : effects[i].kind = "resolve"}

Distinct(seq) == \A i, j \in DOMAIN seq : seq[i] = seq[j] => i = j

Without(seq, x) == SelectSeq(seq, LAMBDA y : y # x)

\* C1: whatever the order in which the responses arrive, a request is resolved only by
\* the frame that just arrived and only if the id that frame echoes (id, else actionID)
\* is the id of the request; when the outstanding requests have distinct ids the frame
\* resolves exactly one of them and every other request stays outstanding.
C1_NoCrossResolution ==
    \A i \in Resolutions :
        /\ lastOp.op = "onMessage"
        /\ effects[i].arg.data = lastOp.data
        /\ effects[i].arg.id \in {lastOp.data.id, lastOp.data.actionID}
        /\ effects[i].arg.id = EchoedId(lastOp.data)
        /\ \E j \in DOMAIN lastOp.waiting : lastOp.waiting[j] = effects[i].arg.id
        /\ Distinct(lastOp.waiting) =>
              /\ Cardinality(Resolutions) = 1
              /\ PendingIds(This) = Without(lastOp.waiting, effects[i].arg.id)

\* two requests outstanding, the response to the younger one arrives first
C1_YoungerAnsweredFirst ==
    /\ lastOp.op = "onMessage"
    /\ lastOp.waiting = <<"0.a", "0.b">>
    /\ \E i \in Resolutions : effects[i].arg.id = "0.b" /\ effects[i].name = "getBitmap"
    /\ PendingIds(This) = <<"0.a">>

\* C2 (as the specification states it): after disconnect() on a ready session with
\* K >= 1 outstanding requests, all K were settled as failed during the call and none
\* is left pending.
C2_DisconnectFailsOutstanding ==
    (lastOp.op = "disconnect" /\ lastOp.ready /\ lastOp.outstanding >= 1) =>
        /\ internalEvents = <<>>
        /\ ~orphaned
        /\ Cardinality({i \in DOMAIN effects : effects[i].kind = "reject"})
              = lastOp.outstanding

LiveSockets == {k \in SocketIds : sockets[k] \in {"connecting", "open"}}

\* C3 (as the specification states it): once the close or error callback of the
\* transport has run and a discovery pass is running again, no request of the lost
\* connection is still pending.
C3_LossFailsOutstanding ==
    (lastOp.op \in {"onClose", "onError"} /\ BagSize(passes) > 0 /\ LiveSockets = {}) =>
        internalEvents = <<>>

EmittedWith(name, arg) ==
    \E i \in DOMAIN effects :
        effects[i].kind = "emit" /\ effects[i].name = name /\ effects[i].arg = arg

\* the frame that just arrived is the authentication reply to the pending registration
RegistrationAnswered ==
    /\ lastOp.op = "onMessage"
    /\ lastOp.data.action = "registerClient"
    /\ \E i \in Resolutions : effects[i].name = "registerClient"

\* C4 (as the specification states it): the authentication reply with the code "200"
\* sets connected and emits ClientRegistered with the reply; a reply with any other
\* code emits ClientRegistrationFailed and leaves connected false.
C4_OnlyTheCode200Registers ==
    RegistrationAnswered =>
        IF lastOp.data.code = <<"2", "0", "0">>
        THEN connected /\ EmittedWith("ClientRegistered", lastOp.data)
        ELSE ~connected /\ Emitted("ClientRegistrationFailed")

\* C4 (amended): the authentication reply whose code parseInt reads as the number 200
\* sets connected and emits ClientRegistered with the reply and no
\* ClientRegistrationFailed; a reply whose code parseInt reads as anything else emits
\* ClientRegistrationFailed, no ClientRegistered, and leaves connected false.
C4_CodeReadAs200Registers ==
    RegistrationAnswered =>
        IF parseInt(lastOp.data.code) = [nan |-> FALSE, value |-> 200]
        THEN /\ connected
             /\ EmittedWith("ClientRegistered", lastOp.data)
             /\ ~Emitted("ClientRegistrationFailed")
        ELSE /\ ~connected
             /\ Emitted("ClientRegistrationFailed")
             /\ ~Emitted("ClientRegistered")

\* the reply with the code "0200" registers the client
C4_Code0200Registers ==
    /\ RegistrationAnswered
    /\ lastOp.data.code = <<"0", "2", "0", "0">>
    /\ connected
    /\ EmittedWith("ClientRegistered", lastOp.data)

\* C5 (as the specification states it): a connect() call that starts a connection
\* attempt leaves forceDisconnect false, so that automatic reconnection works again
\* after an explicit disconnect().
C5_ConnectClearsForceDisconnect ==
    (lastOp.op = "connect" /\ lastOp.started) => ~forceDisconnect

\* C6 (as the specification states it): after disconnect(), called while a discovery
\* pass runs or a transport exists, forceDisconnect is set and no transport is open or
\* opening.
C6_DisconnectAlwaysStops ==
    (lastOp.op = "disconnect" /\ (BagSize(passes) > 0 \/ \E k \in SocketIds : sockets[k] # "free")) =>
        /\ forceDisconnect
        /\ LiveSockets = {}

\* C7 (as the specification states it): discovery passes, armed retry timers and
\* transports that are open or opening never add up to more than one.
C7_AtMostOneAttempt ==
    BagSize(passes) + timers + Cardinality(LiveSockets) <= 1

\* seq holds the first Len(seq) candidates, in the order of the list
InListOrder(seq) == Len(seq) <= Len(Ports) /\ seq = SubSeq(Ports, 1, Len(seq))

\* the step that just ran is a probe of a discovery pass with this outcome
PassEnded(outcome) == lastOp.op = "getVoicemodPort" /\ lastOp.outcome = outcome

\* C8: a discovery pass probes the candidates strictly in list order, one after the
\* other, and returns the first port whose probe opens without probing a later
\* candidate: when the pass returns the k-th candidate, the probes it made are
\* exactly the first k candidates and exactly k-1 of them failed.
C8_ProbesInListOrder ==
    /\ \A pass \in DOMAIN passes :
          /\ InListOrder(pass.probed)
          /\ pass.failed = Len(pass.probed) - 1
    /\ PassEnded("found") =>
          /\ InListOrder(lastOp.pass.probed)
          /\ lastOp.port = Ports[Len(lastOp.pass.probed)]
          /\ lastOp.pass.failed = Len(lastOp.pass.probed) - 1
          /\ \A i \in DOMAIN effects :
                effects[i].kind = "socket" => effects[i].arg.port = lastOp.port

\* only the third candidate is reachable: two failed probes, then the third port
C8_ThirdCandidateFound ==
    /\ PassEnded("found")
    /\ lastOp.port = Ports[3]
    /\ lastOp.pass.failed = 2
    /\ lastOp.pass.probed = <<Ports[1], Ports[2], Ports[3]>>

\* C9: when every probe of a pass ends in close or error, the pass fails with the
\* no-reachable-port error after it probed each candidate of the list exactly once.
C9_FailsAfterEachCandidateOnce ==
    PassEnded("failed") =>
        /\ lastOp.pass.probed = Ports
        /\ lastOp.pass.failed = Len(Ports)
        /\ \A i, j \in DOMAIN lastOp.pass.probed :
              lastOp.pass.probed[i] = lastOp.pass.probed[j] => i = j
        /\ \A i \in DOMAIN effects :
              effects[i].kind = "emit" /\ effects[i].name = "ConnectionError"
                 => effects[i].arg = "unable to find valid Voicemod port"

\* a pass failed without reconnect: the error of the pass is the ConnectionError event
C9_AllProbesFailed ==
    /\ PassEnded("failed")
    /\ lastOp.pass.failed = Len(Ports)
    /\ ~options.reconnect
    /\ Emitted("ConnectionError")

\* reconnect enabled, forceDisconnect false, a finite retry budget
RetryBudgeted == options.reconnect /\ options.maxRetries # 0 /\ ~forceDisconnect

\* the step that just ran is a failed pass that ended the retries
TerminalError ==
    /\ PassEnded("failed")
    /\ Emitted("ConnectionError")
    /\ Thrown("Could not connect to Voicemod API")

\* C10: with reconnect enabled, forceDisconnect false and a finite maxRetries, while
\* discovery keeps failing, a pass that fails with budget left arms exactly one retry
\* timer and increments currentRetry; a pass that fails without budget emits the
\* terminal ConnectionError and arms nothing; a running pass leads to the terminal
\* ConnectionError, and from some point on no retry is armed or started any more.
C10_RetriesEndInConnectionError ==
    /\ [][(RetryBudgeted /\ lastOp'.op = "getVoicemodPort" /\ lastOp'.outcome = "failed")
            => IF currentRetry < options.maxRetries
               THEN /\ timers' = timers + 1
                    /\ currentRetry' = currentRetry + 1
                    /\ effects' = <<>>
               ELSE /\ timers' = timers
                    /\ currentRetry' = currentRetry
                    /\ TerminalError']_vars
    /\ (RetryBudgeted /\ BagSize(passes) > 0) ~> TerminalError
    /\ RetryBudgeted => <>[](timers = 0 /\ lastOp.op # "retryTimer")

\* the budget of two is used up: the second pass failed and nothing is armed
C10_Terminal ==
    /\ RetryBudgeted
    /\ TerminalError
    /\ currentRetry = options.maxRetries
    /\ currentRetry = 2
    /\ timers = 0
    /\ passes = EmptyBag

\* C11: with reconnect enabled and maxRetries = 0, a discovery pass that fails while
\* forceDisconnect is false never emits ConnectionError and never throws: it arms one
\* retry timer and increments currentRetry, whatever the value of currentRetry.
C11_UnlimitedRetriesNeverEnd ==
    [][(options.reconnect /\ options.maxRetries = 0 /\ ~forceDisconnect
           /\ lastOp'.op = "getVoicemodPort" /\ lastOp'.outcome = "failed")
        => /\ timers' = timers + 1
           /\ currentRetry' = currentRetry + 1
           /\ effects' = <<>>]_vars

\* unlimited retries: the second pass in a row failed and the third is armed
C11_ThirdPassArmed ==
    /\ options.reconnect /\ options.maxRetries = 0
    /\ PassEnded("failed")
    /\ currentRetry = 3
    /\ timers = 1
    /\ effects = <<>>

\* the callback that just ran started a discovery pass: it created the first probe
ProbeStarted == \E i \in DOMAIN effects : effects[i].kind = "probe"

TransportLost == lastOp.op \in {"onClose", "onError"}

\* C12 (as the specification states it): the close or error callback of the transport
\* starts no discovery pass itself; the first probe waits for a timer.
C12_ReconnectWaitsForTheTimer ==
    TransportLost => ~ProbeStarted

\* C12 (amended): with reconnect enabled and forceDisconnect false, the close or error
\* callback of the transport emits ConnectionRetry and starts the next discovery pass
\* itself, at once and without a timer; otherwise it starts none.
C12_ReconnectsAtOnce ==
    /\ [](TransportLost =>
            IF options.reconnect /\ ~forceDisconnect
            THEN \E i, j \in DOMAIN effects :
                    /\ i < j
                    /\ effects[i].kind = "emit" /\ effects[i].name = "ConnectionRetry"
                    /\ effects[j].kind = "probe"
            ELSE ~ProbeStarted /\ ~Emitted("ConnectionRetry"))
    /\ [][TransportLost' => timers' = timers]_vars

\* the transport of a ready session closes and the next pass is already probing
C12_PassStartedByClose ==
    /\ lastOp.op = "onClose"
    /\ options.reconnect /\ ~forceDisconnect
    /\ ProbeStarted
    /\ timers = 0
    /\ passes = BagAdd(EmptyBag, NewPass)

\* C13 (as the specification states it): currentRetry goes down only in the step of
\* an authentication reply that registers the client; a rejected reply and a lost
\* transport leave it as it is.
C13_OnlySuccessResetsTheCounter ==
    [][currentRetry' < currentRetry
         => /\ RegistrationAnswered'
            /\ parseInt(lastOp'.data.code) = [nan |-> FALSE, value |-> 200]
            /\ connected']_vars

\* C14: after the close or the error callback of a transport, connected is false and
\* ws is null, and the callback emitted Disconnected before it emitted, as the last
\* thing it did, ConnectionClosed (close) or ConnectionError (error).
C14_TearDownBeforeTheEvent ==
    TransportLost =>
        /\ ~connected
        /\ ws = Null
        /\ effects # <<>>
        /\ effects[Len(effects)].kind = "emit"
        /\ effects[Len(effects)].name =
              (IF lastOp.op = "onClose" THEN "ConnectionClosed" ELSE "ConnectionError")
        /\ \E i \in DOMAIN effects :
              /\ i < Len(effects)
              /\ effects[i].kind = "emit" /\ effects[i].name = "Disconnected"
        /\ \A i \in DOMAIN effects :
              (effects[i].kind = "emit"
                 /\ effects[i].name \in {"ConnectionClosed", "ConnectionError"})
              => i = Len(effects)

\* the transport closes after disconnect() on a ready session
C14_ClosedAfterDisconnect ==
    /\ TransportLost
    /\ forceDisconnect
    /\ effects[1].name = "Disconnected"
    /\ Len(effects) = 2

\* C15 (as the specification states it): after an authentication reply with a code
\* that is not a success, no transport of the client is open or opening.
C15_FailedRegistrationClosesTransport ==
    (RegistrationAnswered /\ parseInt(lastOp.data.code) # [nan |-> FALSE, value |-> 200])
        => LiveSockets = {}

\* the get accessors of the cacheable properties, by the request they send
GetAccessors == CachedGetters \cup {"getVoices", "getCurrentVoice"}

\* the positions in effects where a request frame was handed to the socket
Sends == {i \in DOMAIN effects : effects[i].kind = "send"}

\* the caller just called this kind of accessor
Called(actions) == lastOp.op = "accessor" /\ lastOp.action \in actions

Answered(i) ==
    /\ effects[i].kind = "resolve"
    /\ HasResult(effects[i].name, effects[i].arg.data)

SameCurrentVoice(before, after) ==
    /\ ("currentVoice" \in DOMAIN before) = ("currentVoice" \in DOMAIN after)
    /\ "currentVoice" \in DOMAIN before => before["currentVoice"] = after["currentVoice"]

\* C18 (as the specification states it): the step in which the response to a
\* set/toggle request arrives writes to the cache the value the response echoes: the
\* status of toggleVoiceChanger, and for loadVoice the echoed voice id, the cached id
\* being left alone when the response echoes none.
C18_SettersStoreTheEcho ==
    [][\A i \in DOMAIN effects' :
          /\ (Answered(i)' /\ effects'[i].name = "toggleVoiceChanger")
                => /\ "voiceChangerStatus" \in DOMAIN voicemodState'
                   /\ voicemodState'["voiceChangerStatus"]
                         = effects'[i].arg.data.actionObject.value
          /\ (effects'[i].kind = "resolve" /\ effects'[i].arg.caller = "loadVoice")
                => LET data == effects'[i].arg.data
                   IN IF HasObject(data) /\ "voiceID" \in DOMAIN data.actionObject
                      THEN /\ "currentVoice" \in DOMAIN voicemodState'
                           /\ voicemodState'["currentVoice"] = data.actionObject.voiceID
                      ELSE SameCurrentVoice(voicemodState, voicemodState')]_vars

\* the frame that just arrived is the voiceLoadedEvent of the application
VoiceLoaded ==
    /\ lastOp.op = "onMessage"
    /\ lastOp.data.action = "voiceLoadedEvent"
    /\ HasObject(lastOp.data)
    /\ "voiceID" \in DOMAIN lastOp.data.actionObject

\* C19 (as the specification states it): a voiceLoadedEvent that arrives while a
\* voice list is cached transmits no request.
C19_LookupInTheCachedList ==
    (VoiceLoaded /\ "voiceList" \in DOMAIN voicemodState) => Sends = {}

\* C19 (amended): a voiceLoadedEvent with voiceID v sets the cached current-voice id
\* to v and, on a ready session, transmits one getVoices request whether or not a
\* voice list is cached, emitting no VoiceChanged yet; when a response with a voice
\* list arrives for that request, VoiceChanged is emitted with the record of the
\* received list whose id is v, or with undefined when the list has none.
C19_VoiceLoadedFetchesTheList ==
    /\ VoiceLoaded =>
          /\ "currentVoice" \in DOMAIN voicemodState
          /\ voicemodState["currentVoice"] = lastOp.data.actionObject.voiceID
          /\ ~Emitted("VoiceChanged")
          /\ Ready(This) =>
                /\ Cardinality(Sends) = 1
                /\ \A i \in Sends : effects[i].name = "getVoices"
    /\ \A i \in DOMAIN effects :
          (Answered(i) /\ effects[i].arg.caller = "onVoiceChange")
          => LET list == effects[i].arg.data.actionObject.voices
                 v    == effects[i].arg.ctx
             IN \E j \in DOMAIN effects :
                   /\ j > i
                   /\ effects[j].kind = "emit"
                   /\ effects[j].name = "VoiceChanged"
                   /\ IF \E k \in DOMAIN list : list[k].id = v
                      THEN /\ "id" \in DOMAIN effects[j].arg
                           /\ effects[j].arg.id = v
                           /\ \E k \in DOMAIN list : list[k] = effects[j].arg
                      ELSE "undefined" \in DOMAIN effects[j].arg

\* voiceLoadedEvent for v1, then the list with v1: VoiceChanged carries the record
C19_LoadedVoiceAnnounced ==
    /\ lastOp.op = "onMessage"
    /\ "currentVoice" \in DOMAIN voicemodState
    /\ voicemodState["currentVoice"] = "v1"
    /\ \E i \in DOMAIN effects :
          /\ effects[i].kind = "resolve"
          /\ effects[i].arg.caller = "onVoiceChange"
          /\ effects[i].arg.ctx = "v1"
    /\ EmittedWith("VoiceChanged", Voice("v1"))

\* C20 (as the specification states it): VoiceChanged is never emitted with, and
\* getCurrentVoice never returns, an undefined record.
C20_AbsentIdIsAFailure ==
    \A i \in DOMAIN effects :
        (\/ effects[i].kind = "emit" /\ effects[i].name = "VoiceChanged"
         \/ effects[i].kind = "return" /\ effects[i].name = "getCurrentVoice")
        => "undefined" \notin DOMAIN effects[i].arg

\* C22 (as the specification states it): the requests that wait for their response
\* have pairwise distinct correlation ids, and the frame that just arrived resolved at
\* most one of them.
C22_IdsUniqueWhileOutstanding ==
    /\ Distinct(PendingIds(This))
    /\ Cardinality(Resolutions) <= 1

\* C25 (as the specification states it): no call of connect() ends in a rejected
\* promise because discovery failed; the failure is delivered as an event only.
C25_ConnectNeverRejects ==
    PassEnded("failed") => \A i \in DOMAIN effects : effects[i].kind # "throw"

\* the frame that just arrived, and the key under which the router hands it to the
\* correlator (None when it does not)
Arrived == lastOp.op = "onMessage"

PendingNotice(data) == Truthy(data.msg) /\ toLowerCase(data.msg) = "pending authentication"

CorrelatorKey(data) ==
    IF PendingNotice(data) THEN None
    ELSE IF data.action = "registerClient" THEN data.id
    ELSE IF Truthy(data.id) \/ Truthy(data.actionID) THEN EchoedId(data)
    ELSE None

\* the requests that waited under the key when the frame arrived
WaitingUnder(key) == {j \in DOMAIN lastOp.waiting : lastOp.waiting[j] = key}

\* C22 (amended): a correlation id is drawn at random without a look at the
\* outstanding requests, so two of them may wait under one id; a frame resolves exactly
\* the requests that waited under the id it echoes, all of them when several share
\* it, hence at most one whenever the outstanding ids are pairwise distinct.
C22_ResolvesAllUnderTheEchoedId ==
    Arrived =>
        /\ Cardinality(Resolutions) = Cardinality(WaitingUnder(CorrelatorKey(lastOp.data)))
        /\ \A i \in Resolutions : effects[i].arg.id = CorrelatorKey(lastOp.data)
        /\ Distinct(lastOp.waiting) => Cardinality(Resolutions) <= 1

\* two requests were sent with the same id and one response resolved both
C22_OneResponseResolvesTwo ==
    /\ Arrived
    /\ lastOp.waiting = <<"0.a", "0.a">>
    /\ Cardinality(Resolutions) = 2
    /\ \A i, j \in Resolutions : effects[i].arg.data = effects[j].arg.data

\* the positions in effects where the frame was broadcast on the catch-all channel
Broadcasts == {i \in DOMAIN effects : effects[i].kind = "emit" /\ effects[i].name = "AllEvents"}

\* the router could not classify the frame that just arrived
Unclassified == Thrown("Unknown event") \/ Thrown("Unknown message")

\* C23: every parsed frame is broadcast on AllEvents exactly once, verbatim, and before
\* anything else the router does with it (no event, resolution or error precedes the
\* broadcast), also when the frame then fails classification.
C23_BroadcastFirst ==
    Arrived =>
        /\ Broadcasts = {1}
        /\ effects[1].arg = lastOp.data

\* a frame with no msg, id, actionID or action: broadcast, then the error
C23_UnknownFrameBroadcast ==
    /\ Arrived
    /\ ~Truthy(lastOp.data.action) /\ ~Truthy(lastOp.data.id)
    /\ ~Truthy(lastOp.data.actionID) /\ ~Truthy(lastOp.data.msg)
    /\ Len(effects) = 2
    /\ effects[1].kind = "emit" /\ effects[1].name = "AllEvents"
    /\ effects[1].arg = lastOp.data
    /\ effects[2].kind = "throw" /\ effects[2].name = "Unknown message"

\* an event of the static table of the spontaneous events was emitted
TableApplied ==
    \E i \in DOMAIN effects :
        /\ effects[i].kind = "emit"
        /\ effects[i].name \in {"VoiceChangerStatusChanged", "BackgroundEffectStatusChanged",
                                "HearMyselfStatusChanged", "MuteMicStatusChanged",
                                "MuteMemeForMeStatusChanged", "BadLanguageStatusChanged"}

\* rule 3 of the classification applies to the frame: it carries an id or an actionID
\* and is neither the pending-authentication notice nor the authentication reply
Correlated(data) ==
    /\ ~PendingNotice(data)
    /\ data.action # "registerClient"
    /\ Truthy(data.id) \/ Truthy(data.actionID)

\* C29: a frame that carries an id or an actionID (and is not taken by the two rules
\* of higher priority) is handled as a correlated response, also when its action ends
\* in "Event": the event its actionType maps to is emitted with the actionObject right
\* after the broadcast, the requests waiting under the echoed id (id, else actionID)
\* are resolved with the frame, the event table is not applied, the cache is left
\* alone and no classification error is raised; the event table is applied, or
\* "Unknown event" raised, only for frames with neither id nor actionID.
C29_CorrelationBeforeTheEventTable ==
    [][Arrived' =>
          /\ Correlated(lastOp'.data) =>
                /\ actionMap(lastOp'.data.actionType) # None =>
                      /\ Len(effects') >= 2
                      /\ effects'[2].kind = "emit"
                      /\ effects'[2].name = actionMap(lastOp'.data.actionType)
                      /\ effects'[2].arg = lastOp'.data.actionObject
                /\ PendingIds(This)' = Without(PendingIds(This), EchoedId(lastOp'.data))
                /\ \A i \in Resolutions' : effects'[i].arg.data = lastOp'.data
                /\ Cardinality(Resolutions') = Cardinality(WaitingUnder(EchoedId(lastOp.data))')
                /\ ~TableApplied'
                /\ ~Unclassified'
                /\ voicemodState' = voicemodState
          /\ (TableApplied' \/ Thrown("Unknown event")') =>
                ~Truthy(lastOp'.data.id) /\ ~Truthy(lastOp'.data.actionID)]_vars

\* a frame with the action voiceChangerEnabledEvent and the id of a waiting request:
\* the request is resolved and the cache is not touched
C29_EventNameWithId ==
    /\ Arrived
    /\ lastOp.data.action = "voiceChangerEnabledEvent"
    /\ lastOp.data.id = "0.a"
    /\ lastOp.data.actionType = "UserChanged"
    /\ \E i \in Resolutions : effects[i].arg.id = "0.a"
    /\ "voiceChangerStatus" \notin DOMAIN voicemodState
    /\ effects[2].kind = "emit" /\ effects[2].name = "UserChanged"

\* rule 4 of the classification applies to the frame and the table has no row for it
UnknownEvent(data) ==
    /\ ~Truthy(data.msg)
    /\ ~Truthy(data.id) /\ ~Truthy(data.actionID)
    /\ Truthy(data.action) /\ data.action # "registerClient"
    /\ data.action \in EventActions
    /\ eventTable(data.action).event = None
    /\ data.action # "voiceLoadedEvent"

\* C30: a frame without msg, id and actionID whose action ends in "Event" and has no
\* row in the static table is a classification failure: after the broadcast on
\* AllEvents the error "Unknown event" is raised and nothing else happens: no
\* changed-event is emitted, no request is resolved, and the cache, the ready flag,
\* the connection handle and the pending requests are as they were.
C30_UnknownEventChangesNothing ==
    [][(Arrived' /\ UnknownEvent(lastOp'.data)) =>
          /\ Len(effects') = 2
          /\ effects'[1].kind = "emit" /\ effects'[1].name = "AllEvents"
          /\ effects'[2].kind = "throw" /\ effects'[2].name = "Unknown event"
          /\ voicemodState' = voicemodState
          /\ connected' = connected
          /\ ws' = ws
          /\ internalEvents' = internalEvents]_vars

\* licenseChangedEvent arrives while a request waits and a status is cached
C30_LicenseChangedEvent ==
    /\ Arrived
    /\ lastOp.data.action = "licenseChangedEvent"
    /\ UnknownEvent(lastOp.data)
    /\ Thrown("Unknown event")
    /\ internalEvents # <<>>
    /\ "voiceChangerStatus" \in DOMAIN voicemodState
    /\ connected

\* C24: a request for an action other than registerClient that is made while this.ws
\* is null or connected is false is refused: the call is rejected with the error that
\* names the action and nothing else happens: no frame is sent, no pending request is
\* registered, the cache is as it was; the open callback sends registerClient on the
\* open transport, and registers its pending request, while connected is still false.
C24_RefusedUnlessReady ==
    [][/\ (lastOp'.op = "wsGet" /\ (ws = Null \/ ~connected)) =>
             /\ lastOp'.action # "registerClient"
             /\ Len(effects') = 1
             /\ effects'[1].kind = "reject"
             /\ effects'[1].name = lastOp'.action
             /\ internalEvents' = internalEvents
             /\ voicemodState' = voicemodState
       /\ (lastOp'.op = "onOpen" /\ ws # Null /\ sockets'[ws] = "open" /\ ~connected) =>
             /\ \E i \in DOMAIN effects' :
                   /\ effects'[i].kind = "send"
                   /\ effects'[i].name = "registerClient"
                   /\ effects'[i].arg.socket = ws
             /\ Len(internalEvents') = Len(internalEvents) + 1
             /\ internalEvents'[Len(internalEvents')].action = "registerClient"
             /\ ~connected']_vars

\* the transport is open and registerClient waits for its reply: a request is refused
C24_RefusedBeforeRegistration ==
    /\ lastOp.op = "wsGet"
    /\ ws # Null /\ sockets[ws] = "open" /\ ~connected
    /\ Len(internalEvents) = 1 /\ internalEvents[1].action = "registerClient"
    /\ effects = <<Effect("reject", "getBitmap", "Could not get")>>

\* the fields of the cache
CacheFields ==
    {"user", "userLicense", "voiceList", "currentVoice", "soundboards", "memes",
     "hearMyselfStatus", "voiceChangerStatus", "backgroundEffectsStatus", "muteMicStatus",
     "muteMemeForMeStatus"}

\* the frame that just arrived is a push that carries a value for the field
PushFor(field) ==
    /\ CorrelatorKey(lastOp.data) = None /\ ~PendingNotice(lastOp.data)
    /\ \/ eventTable(lastOp.data.action).field = field
       \/ field = "currentVoice" /\ VoiceLoaded

PushedValue(field) ==
    IF lastOp.data.action = "voiceLoadedEvent"
    THEN lastOp.data.actionObject.voiceID
    ELSE eventTable(lastOp.data.action).value

\* the requests for the field that the frame which just arrived answered: their
\* positions in effects
ResponsesFor(field) ==
    {i \in Resolutions :
        Settings(effects[i].name).storeAs = field /\ HasObject(effects[i].arg.data)}

\* the field is the same in both caches
SameCached(field, before, after) ==
    /\ (field \in DOMAIN before) = (field \in DOMAIN after)
    /\ field \in DOMAIN before => before[field] = after[field]

\* C21 (as the specification states it): a step changes a field of the cache only if
\* it is the arrival of a push or of a response for that field, and when that step is
\* over the field holds the value the frame carries (it is unset when a response
\* carries none); so between two frames each field holds the value of the most recent
\* push or response for it.
C21_LastWriteWins ==
    [][\A field \in CacheFields :
          IF Arrived' /\ (PushFor(field)' \/ ResponsesFor(field)' # {})
          THEN /\ PushFor(field)' =>
                     /\ field \in DOMAIN voicemodState'
                     /\ voicemodState'[field] = PushedValue(field)'
               /\ \A i \in ResponsesFor(field)' :
                     IF HasResult(effects'[i].name, effects'[i].arg.data)
                     THEN /\ field \in DOMAIN voicemodState'
                          /\ voicemodState'[field]
                                = Result(effects'[i].name, effects'[i].arg.data)
                     ELSE field \notin DOMAIN voicemodState'
          ELSE SameCached(field, voicemodState, voicemodState')]_vars

\* the changed-events of the public event surface
ChangedEvents ==
    {"UserChanged", "UserLicenseChanged", "VoiceChanged", "VoiceListChanged",
     "VoiceChangerStatusChanged", "VoiceParameterChanged", "HearMyselfStatusChanged",
     "BackgroundEffectStatusChanged", "MuteMicStatusChanged", "MuteMemeForMeStatusChanged",
     "BadLanguageStatusChanged", "SoundboardListChanged", "MemeListChanged"}

\* the positions in effects where a changed-event was emitted
Changes == {i \in DOMAIN effects : effects[i].kind = "emit" /\ effects[i].name \in ChangedEvents}

\* the public event each request action is expected to end in
ExpectedEvent(action) ==
    CASE action = "getUser"          -> "UserChanged"
      [] action = "getUserLicense"   -> "UserLicenseChanged"
      [] action = "getVoices"        -> "VoiceListChanged"
      [] action = "getMemes"         -> "MemeListChanged"
      [] action = "getAllSoundboard" -> "SoundboardListChanged"
      [] action \in {"getHearMyselfStatus", "toggleHearMyVoice"} -> "HearMyselfStatusChanged"
      [] action \in {"getVoiceChangerStatus", "toggleVoiceChanger"} ->
            "VoiceChangerStatusChanged"
      [] action \in {"getBackgroundEffectStatus", "toggleBackgroundEffects"} ->
            "BackgroundEffectStatusChanged"
      [] action \in {"getMuteMicStatus", "toggleMuteMic"} -> "MuteMicStatusChanged"
      [] action \in {"getMuteMemeForMeStatus", "toggleMuteMemeForMe"} ->
            "MuteMemeForMeStatusChanged"

\* C28: for every request action with a changed-event, when the accessor's request is
\* the only one waiting under its id and its matching response arrives (the id echoed
\* as id or as actionID, actionType equal to the action, the actionObject carrying the
\* value), the step emits exactly one changed-event: the one expected for the action,
\* with the value of the response.
C28_RoundTripEndsInItsEvent ==
    \A i \in Resolutions :
        (/\ Arrived
         /\ Resolutions = {i}
         /\ effects[i].arg.caller = "accessor"
         /\ effects[i].name \in RoundTripActions
         /\ lastOp.data.actionType = effects[i].name
         /\ Answered(i))
        => /\ Cardinality(Changes) = 1
           /\ \A j \in Changes :
                 /\ effects[j].name = ExpectedEvent(effects[i].name)
                 /\ effects[j].arg = Result(effects[i].name, lastOp.data)

\* the round trip of toggleMuteMemeForMe ends in MuteMemeForMeStatusChanged
C28_MuteMemeToggled ==
    /\ Arrived
    /\ lastOp.data.actionType = "toggleMuteMemeForMe"
    /\ \E i \in Resolutions : effects[i].name = "toggleMuteMemeForMe"
    /\ Cardinality(Changes) = 1
    /\ EmittedWith("MuteMemeForMeStatusChanged", TRUE)

\* the open callback just sent registerClient
RegistrationSent ==
    /\ lastOp.op = "onOpen"
    /\ \E i \in DOMAIN effects : effects[i].kind = "send" /\ effects[i].name = "registerClient"

\* C26 (as the specification states it): once the open callback has sent
\* registerClient, the session eventually is ready or emits ClientRegistrationFailed,
\* whether or not the application ever sends an authentication reply.
C26_RegistrationEnds ==
    RegistrationSent ~> (connected \/ Emitted("ClientRegistrationFailed"))

\* C27: whenever ClientRegistered is emitted, the request its listener issues is
\* transmitted at once (the session is ready), the registerClient request opened by
\* onOpen after ConnectionOpened has just been answered, and Connected follows in the
\* same step
C27_ReadyWhenRegistered ==
    \A i \in DOMAIN effects :
        (effects[i].kind = "emit" /\ effects[i].name = "ClientRegistered")
            => /\ i < Len(effects)
               /\ effects[i + 1].kind = "send"
               /\ effects[i + 1].name = "getVoices"
               /\ \E j \in (i + 1)..Len(effects) :
                      effects[j].kind = "emit" /\ effects[j].name = "Connected"
               /\ \E j \in 1..(i - 1) :
                      effects[j].kind = "resolve" /\ effects[j].name = "registerClient"

\* the enabled/disabled events of the five status flags, and the flag each one is about
EnabledEvents ==
    {"voiceChangerEnabledEvent", "backgroundEffectsEnabledEvent", "hearMySelfEnabledEvent",
     "muteMicEnabledEvent", "muteMemeForMeEnabledEvent"}

DisabledEvents ==
    {"voiceChangerDisabledEvent", "backgroundEffectsDisabledEvent", "hearMySelfDisabledEvent",
     "muteMicDisabledEvent", "muteMemeForMeDisabledEvent"}

FlagOf(action) ==
    CASE action \in {"voiceChangerEnabledEvent", "voiceChangerDisabledEvent"} ->
            "voiceChangerStatus"
      [] action \in {"backgroundEffectsEnabledEvent", "backgroundEffectsDisabledEvent"} ->
            "backgroundEffectsStatus"
      [] action \in {"hearMySelfEnabledEvent", "hearMySelfDisabledEvent"} -> "hearMyselfStatus"
      [] action \in {"muteMicEnabledEvent", "muteMicDisabledEvent"} -> "muteMicStatus"
      [] OTHER -> "muteMemeForMeStatus"

\* the frame that arrived is a spontaneous enabled/disabled event of one of the five flags
StatusEventArrived ==
    /\ lastOp.op = "onMessage"
    /\ lastOp.data.action \in EnabledEvents \cup DisabledEvents
    /\ ~PendingNotice(lastOp.data)
    /\ ~Truthy(lastOp.data.id)
    /\ ~Truthy(lastOp.data.actionID)

\* C31: when a spontaneous enabled/disabled event of voice changer, background effects,
\* hear-myself, mute-mic or mute-meme-for-me has been processed, one changed-event was
\* emitted, it carries true for Enabled and false for Disabled, the cache flag of that
\* event holds the same boolean, and every other cache field is as it was.
C31_StatusEventSetsItsFlag ==
    [][StatusEventArrived' =>
          LET flag == FlagOf(lastOp'.data.action)
              on   == lastOp'.data.action \in EnabledEvents
          IN /\ Len(effects') = 2
             /\ effects'[2].kind = "emit"
             /\ effects'[2].name \in ChangedEvents
             /\ effects'[2].arg = on
             /\ flag \in DOMAIN voicemodState'
             /\ voicemodState'[flag] = on
             /\ DOMAIN voicemodState' = DOMAIN voicemodState \cup {flag}
             /\ \A f \in DOMAIN voicemodState \ {flag} :
                    voicemodState'[f] = voicemodState[f]]_vars

\* a disabled event arrived while other fields were cached
C31_MuteMemeDisabled ==
    /\ StatusEventArrived
    /\ lastOp.data.action = "muteMemeForMeDisabledEvent"
    /\ "muteMemeForMeStatus" \in DOMAIN voicemodState
    /\ voicemodState["muteMemeForMeStatus"] = FALSE
    /\ "soundboards" \in DOMAIN voicemodState
    /\ "voiceChangerStatus" \in DOMAIN voicemodState
    /\ voicemodState["voiceChangerStatus"] = TRUE

\* C32: Connected is emitted only in a step that emitted ClientRegistered before it (the
\* step of an authentication reply whose code is a success); never after a reply with
\* a non-success code
C32_ConnectedOnlyWhenRegistered ==
    \A i \in DOMAIN effects :
        (effects[i].kind = "emit" /\ effects[i].name = "Connected")
            => /\ \E j \in 1..(i - 1) :
                      effects[j].kind = "emit" /\ effects[j].name = "ClientRegistered"
               /\ ~Emitted("ClientRegistrationFailed")

\* socket k is the one whose close or error callback just ran
CallbackOf(k) == TransportLost' /\ sockets'[k] # sockets[k]

\* C33: a close or error callback of a socket that is not this.ws, while this.ws holds
\* another socket, leaves this.ws and the ready flag as they are and starts no
\* discovery pass
C33_StaleCallbackIsIgnored ==
    [][\A k \in SocketIds :
          (CallbackOf(k) /\ ws # Null /\ ws # k)
              => /\ ws' = ws
                 /\ connected' = connected
                 /\ passes' = passes]_vars

\* C34: in every reachable state, if the ready flag is true then this.ws holds a socket
C34_ReadyImpliesHandle == connected => ws # Null

\* a discovery pass was started by the client itself, not by a connect() of the caller
StartedOnItsOwn == ProbeStarted /\ lastOp.op # "connect"

\* C35: with reconnect enabled and a finite max retry count, when every registration
\* is rejected the client eventually stops starting discovery passes on its own
C35_RejectedClientGivesUp ==
    (options.reconnect /\ options.maxRetries # 0) => <>[][~StartedOnItsOwn']_vars

\* the close callback of socket k runs after the error callback of k has run for the
\* same loss (without disconnect() a socket is closing only after its error callback)
CloseAfterError(k) ==
    /\ lastOp'.op = "onClose"
    /\ sockets[k] = "closing"
    /\ sockets'[k] = "free"
    /\ ~forceDisconnect

\* C36: a loss that the socket reports by an error and then a close is announced once:
\* the close callback emits no second Disconnected and starts no second discovery pass
C36_OneDisconnectedPerLoss ==
    [][\A k \in SocketIds :
          CloseAfterError(k) => (~Emitted("Disconnected")' /\ ~ProbeStarted')]_vars

\* a discovery pass just failed under the retry logic with a finite budget
BudgetedFailure ==
    /\ options.reconnect
    /\ options.maxRetries # 0
    /\ ~forceDisconnect
    /\ lastOp'.op = "getVoicemodPort"
    /\ lastOp'.outcome = "failed"

\* C37: with a finite maxRetries M >= 1, currentRetry never exceeds M, and a failed pass
\* raises the terminal error exactly when it is the M-th failed pass (or a later one)
\* counted from construction or from the last reset of currentRetry
C37_TerminalAfterExactlyM ==
    /\ [](options.maxRetries # 0 => currentRetry <= options.maxRetries)
    /\ [][BudgetedFailure =>
             (TerminalError' <=> failedPasses' >= options.maxRetries)]_vars

\* disconnect() has just closed socket k, the only socket of a ready session, and the
\* close callback of k runs next
CloseAfterDisconnect(k) ==
    /\ lastOp.op = "disconnect"
    /\ lastOp.ready
    /\ Emitted("ConnectionClosed")
    /\ sockets[k] = "closing"
    /\ \A j \in SocketIds \ {k} : sockets[j] = "free"
    /\ lastOp'.op = "onClose"
    /\ sockets'[k] = "free"

\* C38: after disconnect() of a ready session has emitted ConnectionClosed, the close
\* callback of the socket it closed emits no second ConnectionClosed
C38_OneConnectionClosed ==
    [][\A k \in SocketIds : CloseAfterDisconnect(k) => ~Emitted("ConnectionClosed")']_vars

\* the step that just ran belongs to the life cycle of the connection: disconnect(),
\* a close or error callback, connect(), a discovery pass, the open callback or the
\* reply to a registration
LifeCycleStep ==
    \/ lastOp.op \in {"disconnect", "onClose", "onError", "connect", "getVoicemodPort",
                      "onOpen", "retryTimer"}
    \/ lastOp.op = "onMessage" /\ lastOp.data.action = "registerClient"

C40_NoAttemptOnItsOwn ==
    [][~options.reconnect =>
          /\ timers' = 0
          /\ (ProbeStarted' \/ BagSize(passes') > BagSize(passes)) => lastOp'.op = "connect"
          /\ (lastOp'.op = "getVoicemodPort" /\ lastOp'.outcome = "failed") =>
                effects' = <<Effect("emit", "ConnectionError",
                                    "unable to find valid Voicemod port")>>
          /\ TransportLost' => (~ProbeStarted' /\ passes' = passes)]_vars

\* without reconnect the only pass has failed: one ConnectionError, nothing armed,
\* nothing running
C40_FailedAndIdle ==
    /\ ~options.reconnect
    /\ PassEnded("failed")
    /\ effects = <<Effect("emit", "ConnectionError", "unable to find valid Voicemod port")>>
    /\ timers = 0
    /\ passes = EmptyBag

====
